---- MODULE Spec2Model ----
(***************************************************************************)
(* Timetable scheduling of the school administration backend: the slot     *)
(* store (TimetableSlot rows), the four write handlers of                  *)
(* admin.controller.ts (createOrUpdateTimetableSlot, setAlternateTimetable,*)
(* assignSubstituteTeacher, clearSubstituteTeacher) and the time helpers   *)
(* of lib/time.utils.ts, the two handlers that read the effective schedule *)
(* (getTimetableForClassSection, getTeacherTimetable), and the requests    *)
(* that are in flight when handlers run concurrently.                      *)
(***************************************************************************)
EXTENDS Integers, Sequences, FiniteSets, TLC

VARIABLES slots, nextId, inflight

vars == <<slots, nextId, inflight>>

(***************************************************************************)
(* Bounds of the model.                                                    *)
(***************************************************************************)
\* Row ids are generated and never reused: under Spec at most MaxId rows are
\* ever created, under SpecAlternate at most MaxAlternateId, under
\* SpecSubstitute at most MaxSubstituteId, under SpecSchedule at most
\* MaxScheduleId, under SpecReplace at most MaxReplaceId before the batch
\* is sent.
MaxId == 2

MaxAlternateId == 3

MaxSubstituteId == 2

MaxScheduleId == 3

MaxReplaceId == 2

(***************************************************************************)
(* Values.                                                                 *)
(***************************************************************************)
\* JavaScript null / undefined of a string-typed field.
Null == "<null>"

\* `!x` of a string-typed field: null, undefined and "" are falsy.
Falsy(x) == x = Null \/ x = ""

\* `x || null`
OrNull(x) == IF Falsy(x) THEN Null ELSE x

\* An absent id (`id ? ... : undefined`).
NoId == 0

\* The DayOfWeek enum, indexed as getUTCDay() is (Sunday = 0).
DayOfWeek ==
  <<"SUNDAY", "MONDAY", "TUESDAY", "WEDNESDAY", "THURSDAY", "FRIDAY", "SATURDAY">>

DayOfWeekValues == { DayOfWeek[i] : i \in 1..7 }

\* The user directory: prisma.user rows and their role.
Users == [T1 |-> "TEACHER", T2 |-> "TEACHER", P1 |-> "PARENT"]

\* prisma.user.findFirst({ where: { id, role: Role.TEACHER } }) finds a row.
findTeacher(uid) == uid \in DOMAIN Users /\ Users[uid] = "TEACHER"

(***************************************************************************)
(* lib/time.utils.ts.  A time string is the sequence of its characters.    *)
(***************************************************************************)
DigitValue ==
  [c \in {"0", "1", "2", "3", "4", "5", "6", "7", "8", "9"} |->
     CASE c = "0" -> 0 [] c = "1" -> 1 [] c = "2" -> 2 [] c = "3" -> 3
       [] c = "4" -> 4 [] c = "5" -> 5 [] c = "6" -> 6 [] c = "7" -> 7
       [] c = "8" -> 8 [] c = "9" -> 9]

IsDigit(c) == c \in DOMAIN DigitValue

\* Number("dd") of a two-digit string.
Number2(a, b) == 10 * DigitValue[a] + DigitValue[b]

\* /^\d{2}:\d{2}$/.test(time)
MatchesHHMM(time) ==
  /\ Len(time) = 5
  /\ IsDigit(time[1]) /\ IsDigit(time[2])
  /\ time[3] = ":"
  /\ IsDigit(time[4]) /\ IsDigit(time[5])

isValidTimeFormat(time) ==
  IF ~MatchesHHMM(time) THEN FALSE
  ELSE LET hours == Number2(time[1], time[2])
           minutes == Number2(time[4], time[5])
       IN hours >= 0 /\ hours <= 23 /\ minutes >= 0 /\ minutes <= 59

timeToMinutes(time) ==
  LET hours == Number2(time[1], time[2])
      minutes == Number2(time[4], time[5])
  IN hours * 60 + minutes

Max(a, b) == IF a >= b THEN a ELSE b

Min(a, b) == IF a <= b THEN a ELSE b

\* Mutant: only a second interval that starts inside the first one overlaps.
doTimeSlotsOverlap_StartInside(t1Start, t1End, t2Start, t2End) ==
  /\ timeToMinutes(t2Start) >= timeToMinutes(t1Start)
  /\ timeToMinutes(t2Start) < timeToMinutes(t1End)

\* Mutant: closed intervals, so that touching intervals overlap.
doTimeSlotsOverlap_Closed(t1Start, t1End, t2Start, t2End) ==
  Max(timeToMinutes(t1Start), timeToMinutes(t2Start))
    <= Min(timeToMinutes(t1End), timeToMinutes(t2End))

doTimeSlotsOverlap(t1Start, t1End, t2Start, t2End) ==
  LET start1 == timeToMinutes(t1Start)
      end1 == timeToMinutes(t1End)
      start2 == timeToMinutes(t2Start)
      end2 == timeToMinutes(t2End)
  IN Max(start1, start2) < Min(end1, end2)

(***************************************************************************)
(* Dates.  An instant is a number of hours since 1970-01-01T00:00Z; a      *)
(* stored date is <<>> (null) or <<day>>, the UTC midnight of epoch day    *)
(* `day`.  A date string of a request is "none" (absent or empty), "ymd"   *)
(* (YYYY-MM-DD, parsed as UTC midnight), "iso" (a full UTC timestamp,      *)
(* which new Date parses and the YYYY-MM-DD pattern rejects) or "bad"      *)
(* (not a date: NaN).                                                      *)
(***************************************************************************)
NoDate == <<>>

DateString(kind, y, m, d, h) == [kind |-> kind, y |-> y, m |-> m, d |-> d, h |-> h]

NoDateString == DateString("none", 0, 0, 0, 0)

\* The epoch day of a calendar date of the proleptic Gregorian calendar.
epochDay(y, m, d) ==
  LET yy == IF m <= 2 THEN y - 1 ELSE y
      era == yy \div 400
      yoe == yy - era * 400
      mp == IF m > 2 THEN m - 3 ELSE m + 9
      doy == (153 * mp + 2) \div 5 + d - 1
      doe == yoe * 365 + yoe \div 4 - yoe \div 100 + doy
  IN era * 146097 + doe - 719468

\* new Date(s).getTime(), in hours.
getTime(s) == epochDay(s.y, s.m, s.d) * 24 + s.h

\* isNaN(new Date(s).getTime())
isNaNDate(s) == s.kind \notin {"ymd", "iso"}

\* new Date(Date.UTC(d.getUTCFullYear(), d.getUTCMonth(), d.getUTCDate()))
utcMidnight(hours) == <<hours \div 24>>

\* date.getUTCDay(): 1970-01-01 was a Thursday (4).
getUTCDay(date) == (date[1] + 4) % 7

getDayOfWeekFromDate(date) == DayOfWeek[getUTCDay(date) + 1]

\* date.toISOString().split('T')[0] of a stored date, null staying null: the
\* calendar date of the epoch day, as a YYYY-MM-DD string.
formatDate(date) ==
  IF date = NoDate THEN NoDateString
  ELSE LET z == date[1] + 719468
           era == z \div 146097
           doe == z - era * 146097
           yoe == (doe - doe \div 1460 + doe \div 36524 - doe \div 146096) \div 365
           doy == doe - (365 * yoe + yoe \div 4 - yoe \div 100)
           mp == (5 * doy + 2) \div 153
           d == doy - (153 * mp + 2) \div 5 + 1
           m == IF mp < 10 THEN mp + 3 ELSE mp - 9
           y == yoe + era * 400 + (IF m <= 2 THEN 1 ELSE 0)
       IN DateString("ymd", y, m, d, 0)

(***************************************************************************)
(* The store: the TimetableSlot table.                                     *)
(***************************************************************************)
Ids(store) == { s.id : s \in store }

findUnique(store, id) == { s \in store : s.id = id }

\* The unique index (dayOfWeek, startTime, currentClass, section, subject,
\* date): a row with a NULL in any indexed column never collides.
UniqueKeyClash(r, s) ==
  /\ r.section # Null /\ s.section # Null
  /\ r.date # NoDate /\ s.date # NoDate
  /\ r.dayOfWeek = s.dayOfWeek
  /\ r.startTime = s.startTime
  /\ r.currentClass = s.currentClass
  /\ r.section = s.section
  /\ r.subject = s.subject
  /\ r.date = s.date

\* Error P2002 of an insert or update of row r.
violatesUnique(store, r) == \E s \in store : s.id # r.id /\ UniqueKeyClash(r, s)

(***************************************************************************)
(* A handler's outcome: the response and the store it leaves.              *)
(***************************************************************************)
Outcome(status, msg, store, nid) ==
  [status |-> status, msg |-> msg, slots |-> store, nextId |-> nid]

(***************************************************************************)
(* createOrUpdateTimetableSlot (POST /admin/timetable).  The payload p is  *)
(* req.body: id (NoId when absent), dayOfWeek, startTime, endTime,         *)
(* currentClass, section, subject, teacherId, date.                        *)
(***************************************************************************)
MsgRequired == "required"
MsgInvalidDay == "Invalid dayOfWeek value"
MsgInvalidTime == "Invalid time format"
MsgStartBeforeEnd == "Start time must be before end time"
MsgNotTeacher == "not found or is not a teacher"
MsgTeacherConflict == "Teacher conflict"
MsgClassConflict == "Class/Section conflict"
MsgExactSlotExists == "This exact subject slot already exists"
MsgServerError == "Internal Server Error"
MsgOk == "ok"

\* `teacherId === '' -> null`, `section === '' -> null`
EmptyToNull(x) == IF x = "" THEN Null ELSE x

\* `id: id ? { not: id } : undefined`
NotId(s, id) == id = NoId \/ s.id # id

\* Some row of `found` overlaps [startTime, endTime).
AnyOverlap(found, startTime, endTime) ==
  \E existingSlot \in found :
    doTimeSlotsOverlap(existingSlot.startTime, existingSlot.endTime, startTime, endTime)

\* findMany of the teacher conflict check.
conflictingTeacherSlots(store, id, teacherId, dayOfWeek) ==
  { s \in store : s.teacherId = teacherId /\ s.dayOfWeek = dayOfWeek /\ NotId(s, id) }

\* Mutant: the class conflict check looks at the class only, not the section.
conflictingClassSlots_AnySection(store, id, currentClass, section, dayOfWeek) ==
  { s \in store : s.currentClass = currentClass /\ s.dayOfWeek = dayOfWeek /\ NotId(s, id) }

\* findMany of the class/section conflict check.
conflictingClassSlots(store, id, currentClass, section, dayOfWeek) ==
  { s \in store : /\ s.currentClass = currentClass
                  /\ s.section = OrNull(section)
                  /\ s.dayOfWeek = dayOfWeek
                  /\ NotId(s, id) }

\* Mutant: the start time is not compared with the end time.
validateSlotPayload_AnyOrder(p) ==
  IF \/ Falsy(p.dayOfWeek) \/ p.startTime = <<>> \/ p.endTime = <<>>
     \/ Falsy(p.currentClass) \/ Falsy(p.subject)
  THEN MsgRequired
  ELSE IF p.dayOfWeek \notin DayOfWeekValues THEN MsgInvalidDay
  ELSE IF ~isValidTimeFormat(p.startTime) \/ ~isValidTimeFormat(p.endTime)
  THEN MsgInvalidTime
  ELSE IF ~Falsy(EmptyToNull(p.teacherId)) /\ ~findTeacher(EmptyToNull(p.teacherId))
  THEN MsgNotTeacher
  ELSE MsgOk

\* The validations of the handler: the message of the first one that fails,
\* MsgOk when all pass.
validateSlotPayload(p) ==
  IF \/ Falsy(p.dayOfWeek) \/ p.startTime = <<>> \/ p.endTime = <<>>
     \/ Falsy(p.currentClass) \/ Falsy(p.subject)
  THEN MsgRequired
  ELSE IF p.dayOfWeek \notin DayOfWeekValues THEN MsgInvalidDay
  ELSE IF ~isValidTimeFormat(p.startTime) \/ ~isValidTimeFormat(p.endTime)
  THEN MsgInvalidTime
  ELSE IF timeToMinutes(p.startTime) >= timeToMinutes(p.endTime) THEN MsgStartBeforeEnd
  ELSE IF ~Falsy(EmptyToNull(p.teacherId)) /\ ~findTeacher(EmptyToNull(p.teacherId))
  THEN MsgNotTeacher
  ELSE MsgOk

\* Mutant: the class/section check runs before the teacher check.
detectSlotConflict_ClassFirst(store, p) ==
  LET teacherId == EmptyToNull(p.teacherId)
      section == EmptyToNull(p.section)
  IN IF AnyOverlap(conflictingClassSlots(store, p.id, p.currentClass, section,
                                         p.dayOfWeek),
                   p.startTime, p.endTime)
     THEN MsgClassConflict
     ELSE IF /\ ~Falsy(teacherId)
             /\ AnyOverlap(conflictingTeacherSlots(store, p.id, teacherId, p.dayOfWeek),
                           p.startTime, p.endTime)
     THEN MsgTeacherConflict
     ELSE MsgOk

\* The conflict detection of the handler: the message of the first conflict
\* found, MsgOk when there is none.
detectSlotConflict(store, p) ==
  LET teacherId == EmptyToNull(p.teacherId)
      section == EmptyToNull(p.section)
  IN IF /\ ~Falsy(teacherId)
        /\ AnyOverlap(conflictingTeacherSlots(store, p.id, teacherId, p.dayOfWeek),
                      p.startTime, p.endTime)
     THEN MsgTeacherConflict
     ELSE IF AnyOverlap(conflictingClassSlots(store, p.id, p.currentClass, section,
                                              p.dayOfWeek),
                        p.startTime, p.endTime)
     THEN MsgClassConflict
     ELSE MsgOk

\* slotData: the columns written by create and update.
slotDataOf(p) ==
  [dayOfWeek |-> p.dayOfWeek,
   startTime |-> p.startTime,
   endTime |-> p.endTime,
   currentClass |-> p.currentClass,
   section |-> OrNull(EmptyToNull(p.section)),
   subject |-> p.subject,
   teacherId |-> OrNull(EmptyToNull(p.teacherId)),
   date |-> IF p.date.kind = "none" THEN NoDate ELSE utcMidnight(getTime(p.date))]

\* A new row: the written columns, a generated id and no substitute.
newRow(id, data) ==
  [id |-> id, dayOfWeek |-> data.dayOfWeek, startTime |-> data.startTime,
   endTime |-> data.endTime, currentClass |-> data.currentClass,
   section |-> data.section, subject |-> data.subject,
   teacherId |-> data.teacherId, substituteTeacherId |-> Null, date |-> data.date]

\* Mutant: an update without a date leaves the date of the row as it is.
updatedRow_KeepsDate(s, data) ==
  [s EXCEPT !.dayOfWeek = data.dayOfWeek, !.startTime = data.startTime,
            !.endTime = data.endTime, !.currentClass = data.currentClass,
            !.section = data.section, !.subject = data.subject,
            !.teacherId = data.teacherId,
            !.date = IF data.date = NoDate THEN s.date ELSE data.date]

\* update({ where: { id }, data }): the row with the written columns replaced.
updatedRow(s, data) ==
  [s EXCEPT !.dayOfWeek = data.dayOfWeek, !.startTime = data.startTime,
            !.endTime = data.endTime, !.currentClass = data.currentClass,
            !.section = data.section, !.subject = data.subject,
            !.teacherId = data.teacherId, !.date = data.date]

\* The write of the handler, after validation and conflict detection.
persistSlot(store, nid, p) ==
  IF p.date.kind # "none" /\ isNaNDate(p.date)
  THEN Outcome(500, MsgServerError, store, nid)       \* Invalid Date refused by the client
  ELSE IF p.id # NoId
  THEN IF findUnique(store, p.id) = {}
       THEN Outcome(500, MsgServerError, store, nid)  \* P2025: no row to update
       ELSE LET old == CHOOSE s \in store : s.id = p.id
                row == updatedRow(old, slotDataOf(p))
            IN IF violatesUnique(store, row)
               THEN Outcome(409, MsgExactSlotExists, store, nid)
               ELSE Outcome(200, MsgOk, (store \ {old}) \cup {row}, nid)
  ELSE LET row == newRow(nid, slotDataOf(p))
       IN IF violatesUnique(store, row)
          THEN Outcome(409, MsgExactSlotExists, store, nid)
          ELSE Outcome(201, MsgOk, store \cup {row}, nid + 1)

\* Mutant: the slot is written before the conflicts are looked for.
createOrUpdateTimetableSlot_WriteFirst(store, nid, p) ==
  IF validateSlotPayload(p) # MsgOk
  THEN Outcome(400, validateSlotPayload(p), store, nid)
  ELSE IF detectSlotConflict(store, p) # MsgOk
  THEN Outcome(409, detectSlotConflict(store, p),
               persistSlot(store, nid, p).slots, persistSlot(store, nid, p).nextId)
  ELSE persistSlot(store, nid, p)

createOrUpdateTimetableSlot(store, nid, p) ==
  IF validateSlotPayload(p) # MsgOk
  THEN Outcome(400, validateSlotPayload(p), store, nid)
  ELSE IF detectSlotConflict(store, p) # MsgOk
  THEN Outcome(409, detectSlotConflict(store, p), store, nid)
  ELSE persistSlot(store, nid, p)

(***************************************************************************)
(* setAlternateTimetable (POST /admin/alternate-timetable).  The request   *)
(* is a date string and a sequence of slot inputs: startTime, endTime,     *)
(* currentClass, section, subject, teacherId.                              *)
(***************************************************************************)
MsgDateRequired == "A specific date and an array of slots are required"
MsgInvalidDate == "Invalid date format"
MsgTeacherConflictWithin == "Teacher conflict within the submitted alternate schedule"
MsgClassConflictWithin == "Class/Section conflict within the submitted alternate schedule"
MsgSlotConflict == "A timetable slot conflict occurred"

\* The per-slot validation of the batch: the message of the first check that
\* fails, MsgOk when all pass.
validateAlternateSlot(slotData) ==
  IF \/ slotData.startTime = <<>> \/ slotData.endTime = <<>>
     \/ Falsy(slotData.currentClass) \/ Falsy(slotData.subject)
  THEN MsgRequired
  ELSE IF ~isValidTimeFormat(slotData.startTime) \/ ~isValidTimeFormat(slotData.endTime)
  THEN MsgInvalidTime
  ELSE IF timeToMinutes(slotData.startTime) >= timeToMinutes(slotData.endTime)
  THEN MsgStartBeforeEnd
  ELSE IF /\ ~Falsy(EmptyToNull(slotData.teacherId))
          /\ ~findTeacher(EmptyToNull(slotData.teacherId))
  THEN MsgNotTeacher
  ELSE MsgOk

\* The validation loop: the message of the first slot input that fails.
validateAlternateSlots(alternateSlotsData) ==
  IF \A i \in DOMAIN alternateSlotsData : validateAlternateSlot(alternateSlotsData[i]) = MsgOk
  THEN MsgOk
  ELSE LET i == CHOOSE k \in DOMAIN alternateSlotsData :
                  /\ validateAlternateSlot(alternateSlotsData[k]) # MsgOk
                  /\ \A j \in 1..(k - 1) : validateAlternateSlot(alternateSlotsData[j]) = MsgOk
       IN validateAlternateSlot(alternateSlotsData[i])

\* The validation loop rewrites an empty teacherId or section to null.
normalizeAlternateSlot(slotData) ==
  [slotData EXCEPT !.teacherId = EmptyToNull(slotData.teacherId),
                   !.section = EmptyToNull(slotData.section)]

\* Mutant: two slot inputs without a teacher count as sharing their teacher.
teacherConflictInPayload_NullTeacher(alternateSlotsData, i) ==
  \E j \in DOMAIN alternateSlotsData :
    /\ alternateSlotsData[j].teacherId = alternateSlotsData[i].teacherId
    /\ j # i
    /\ doTimeSlotsOverlap(alternateSlotsData[j].startTime, alternateSlotsData[j].endTime,
                          alternateSlotsData[i].startTime, alternateSlotsData[i].endTime)

\* teacherConflictInPayload.length > 0 for the slot input at index i.
teacherConflictInPayload(alternateSlotsData, i) ==
  \E j \in DOMAIN alternateSlotsData :
    /\ ~Falsy(alternateSlotsData[j].teacherId)
    /\ alternateSlotsData[j].teacherId = alternateSlotsData[i].teacherId
    /\ j # i
    /\ doTimeSlotsOverlap(alternateSlotsData[j].startTime, alternateSlotsData[j].endTime,
                          alternateSlotsData[i].startTime, alternateSlotsData[i].endTime)

\* classConflictInPayload.length > 0 for the slot input at index i.
classConflictInPayload(alternateSlotsData, i) ==
  \E j \in DOMAIN alternateSlotsData :
    /\ alternateSlotsData[j].currentClass = alternateSlotsData[i].currentClass
    /\ OrNull(alternateSlotsData[j].section) = OrNull(alternateSlotsData[i].section)
    /\ j # i
    /\ doTimeSlotsOverlap(alternateSlotsData[j].startTime, alternateSlotsData[j].endTime,
                          alternateSlotsData[i].startTime, alternateSlotsData[i].endTime)

\* The row created for a slot input of the batch.
alternateRow(id, slotData, dayOfWeekForAlternateDate, normalizedAlternateDate) ==
  [id |-> id,
   dayOfWeek |-> dayOfWeekForAlternateDate,
   startTime |-> slotData.startTime,
   endTime |-> slotData.endTime,
   currentClass |-> slotData.currentClass,
   section |-> OrNull(slotData.section),
   subject |-> slotData.subject,
   teacherId |-> OrNull(slotData.teacherId),
   substituteTeacherId |-> Null,
   date |-> normalizedAlternateDate]

\* Mutant: the rows of the date's day of week are deleted, weekly ones too.
deleteManyByDate_DayOfWeek(store, date) ==
  { s \in store : s.dayOfWeek # DayOfWeek[((date[1] + 4) % 7) + 1] }

\* Mutant: the batch is merged into the rows of the date.
deleteManyByDate_Merge(store, date) == store

\* deleteMany({ where: { date } }): the rows that stay.
deleteManyByDate(store, date) == { s \in store : s.date # date }

\* Mutant: a slot input is also compared with the weekly slots of its
\* teacher on the day of week of the date.
RECURSIVE createAlternateSlots_AgainstStore(_, _, _, _, _)
createAlternateSlots_AgainstStore(store, nid, alternateSlotsData, i, date) ==
  IF i > Len(alternateSlotsData) THEN Outcome(201, MsgOk, store, nid)
  ELSE IF \/ teacherConflictInPayload(alternateSlotsData, i)
          \/ \E s \in store :
               /\ s.date = NoDate /\ s.dayOfWeek = getDayOfWeekFromDate(date)
               /\ ~Falsy(alternateSlotsData[i].teacherId)
               /\ alternateSlotsData[i].teacherId \in {s.teacherId, s.substituteTeacherId}
               /\ doTimeSlotsOverlap(s.startTime, s.endTime,
                                     alternateSlotsData[i].startTime,
                                     alternateSlotsData[i].endTime)
  THEN Outcome(409, MsgTeacherConflictWithin, store, nid)
  ELSE IF classConflictInPayload(alternateSlotsData, i)
  THEN Outcome(409, MsgClassConflictWithin, store, nid)
  ELSE LET row == alternateRow(nid, alternateSlotsData[i], getDayOfWeekFromDate(date), date)
       IN IF violatesUnique(store, row)
          THEN Outcome(409, MsgSlotConflict, store, nid)
          ELSE createAlternateSlots_AgainstStore(store \cup {row}, nid + 1,
                                                 alternateSlotsData, i + 1, date)

\* The creation loop of the transaction from index i on, `store` being the
\* rows the transaction sees: the outcome of the loop, a status other than
\* 201 standing for the exception thrown.
RECURSIVE createAlternateSlots(_, _, _, _, _)
createAlternateSlots(store, nid, alternateSlotsData, i, date) ==
  IF i > Len(alternateSlotsData) THEN Outcome(201, MsgOk, store, nid)
  ELSE IF teacherConflictInPayload(alternateSlotsData, i)
  THEN Outcome(409, MsgTeacherConflictWithin, store, nid)
  ELSE IF classConflictInPayload(alternateSlotsData, i)
  THEN Outcome(409, MsgClassConflictWithin, store, nid)
  ELSE LET row == alternateRow(nid, alternateSlotsData[i], getDayOfWeekFromDate(date), date)
       IN IF violatesUnique(store, row)
          THEN Outcome(409, MsgSlotConflict, store, nid)
          ELSE createAlternateSlots(store \cup {row}, nid + 1, alternateSlotsData, i + 1, date)

\* Mutant: the writes made before the exception stay.
transaction_NoRollback(store, nid, attempt) == attempt

\* prisma.$transaction: the callback's writes are committed when it returns
\* and rolled back when it throws.
transaction(store, nid, attempt) ==
  IF attempt.status = 201 THEN attempt
  ELSE Outcome(attempt.status, attempt.msg, store, nid)

setAlternateTimetable(store, nid, dateString, alternateSlotsData) ==
  IF dateString.kind = "none" THEN Outcome(400, MsgDateRequired, store, nid)
  ELSE IF isNaNDate(dateString) \/ dateString.kind # "ymd"
  THEN Outcome(400, MsgInvalidDate, store, nid)
  ELSE IF validateAlternateSlots(alternateSlotsData) # MsgOk
  THEN Outcome(400, validateAlternateSlots(alternateSlotsData), store, nid)
  ELSE LET normalizedAlternateDate == utcMidnight(getTime(dateString))
           batch == [i \in DOMAIN alternateSlotsData |->
                       normalizeAlternateSlot(alternateSlotsData[i])]
       IN transaction(store, nid,
            createAlternateSlots(deleteManyByDate(store, normalizedAlternateDate),
                                 nid, batch, 1, normalizedAlternateDate))

(***************************************************************************)
(* assignSubstituteTeacher and clearSubstituteTeacher                      *)
(* (POST /admin/substitute, POST /admin/substitute/clear).                 *)
(***************************************************************************)
MsgIdsRequired == "Timetable Slot ID and Substitute Teacher ID are required"
MsgSlotNotFound == "Timetable slot not found"
MsgNotSubstitute == "is not a valid substitute teacher"
MsgOwnSlot == "Teacher cannot be assigned as a substitute for their own original slot"
MsgSubstituteBusy == "Substitute teacher conflict: Teacher is already assigned to another slot during this time"
MsgSubstituteConflict == "Substitute teacher conflict"
MsgSlotIdRequired == "Timetable Slot ID is required"

\* Mutant: only the slots the substitute teaches as primary teacher count.
substituteConflicts_PrimaryOnly(store, slotToUpdate, substituteTeacherId) ==
  { s \in store : /\ s.teacherId = substituteTeacherId
                  /\ s.dayOfWeek = slotToUpdate.dayOfWeek
                  /\ s.date = slotToUpdate.date
                  /\ s.id # slotToUpdate.id }

\* findMany of the substitute's commitments.
substituteConflicts(store, slotToUpdate, substituteTeacherId) ==
  { s \in store : /\ \/ s.teacherId = substituteTeacherId
                     \/ s.substituteTeacherId = substituteTeacherId
                  /\ s.dayOfWeek = slotToUpdate.dayOfWeek
                  /\ s.date = slotToUpdate.date
                  /\ s.id # slotToUpdate.id }

\* Mutant: the substitute takes the slot over as its teacher.
setSubstitute_ReplacesTeacher(store, slot, substituteTeacherId) ==
  (store \ {slot}) \cup {[slot EXCEPT !.teacherId = substituteTeacherId]}

\* update({ where: { id }, data: { substituteTeacherId } })
setSubstitute(store, slot, substituteTeacherId) ==
  (store \ {slot}) \cup {[slot EXCEPT !.substituteTeacherId = substituteTeacherId]}

\* Mutant: the availability of the substitute is checked before the
\* self-substitution.
assignSubstituteTeacher_ConflictFirst(store, nid, timetableSlotId, substituteTeacherId) ==
  IF timetableSlotId = NoId \/ Falsy(substituteTeacherId)
  THEN Outcome(400, MsgIdsRequired, store, nid)
  ELSE IF { s \in store : s.id = timetableSlotId } = {}
  THEN Outcome(404, MsgSlotNotFound, store, nid)
  ELSE LET slotToUpdate == CHOOSE s \in store : s.id = timetableSlotId
       IN IF ~findTeacher(substituteTeacherId)
          THEN Outcome(400, MsgNotSubstitute, store, nid)
          ELSE IF \E s \in store :
                    /\ s.teacherId = substituteTeacherId
                       \/ s.substituteTeacherId = substituteTeacherId
                    /\ s.dayOfWeek = slotToUpdate.dayOfWeek
                    /\ s.date = slotToUpdate.date
                    /\ s.id # slotToUpdate.id
                    /\ doTimeSlotsOverlap(s.startTime, s.endTime,
                                          slotToUpdate.startTime, slotToUpdate.endTime)
          THEN Outcome(409, MsgSubstituteBusy, store, nid)
          ELSE IF ~Falsy(slotToUpdate.teacherId) /\ slotToUpdate.teacherId = substituteTeacherId
          THEN Outcome(400, MsgOwnSlot, store, nid)
          ELSE IF slotToUpdate.substituteTeacherId = substituteTeacherId
          THEN Outcome(409, MsgSubstituteConflict, store, nid)
          ELSE Outcome(200, MsgOk,
                       (store \ {slotToUpdate})
                         \cup {[slotToUpdate EXCEPT !.substituteTeacherId = substituteTeacherId]},
                       nid)

\* Mutant: the substitute is verified to be a teacher before the slot is
\* fetched.
assignSubstituteTeacher_TeacherFirst(store, nid, timetableSlotId, substituteTeacherId) ==
  IF timetableSlotId = NoId \/ Falsy(substituteTeacherId)
  THEN Outcome(400, MsgIdsRequired, store, nid)
  ELSE IF ~findTeacher(substituteTeacherId)
  THEN Outcome(400, MsgNotSubstitute, store, nid)
  ELSE IF { s \in store : s.id = timetableSlotId } = {}
  THEN Outcome(404, MsgSlotNotFound, store, nid)
  ELSE LET slotToUpdate == CHOOSE s \in store : s.id = timetableSlotId
       IN IF ~Falsy(slotToUpdate.teacherId) /\ slotToUpdate.teacherId = substituteTeacherId
          THEN Outcome(400, MsgOwnSlot, store, nid)
          ELSE IF \E s \in store :
                    /\ s.teacherId = substituteTeacherId
                       \/ s.substituteTeacherId = substituteTeacherId
                    /\ s.dayOfWeek = slotToUpdate.dayOfWeek
                    /\ s.date = slotToUpdate.date
                    /\ s.id # slotToUpdate.id
                    /\ doTimeSlotsOverlap(s.startTime, s.endTime,
                                          slotToUpdate.startTime, slotToUpdate.endTime)
          THEN Outcome(409, MsgSubstituteBusy, store, nid)
          ELSE IF slotToUpdate.substituteTeacherId = substituteTeacherId
          THEN Outcome(409, MsgSubstituteConflict, store, nid)
          ELSE Outcome(200, MsgOk,
                       (store \ {slotToUpdate})
                         \cup {[slotToUpdate EXCEPT !.substituteTeacherId = substituteTeacherId]},
                       nid)

assignSubstituteTeacher(store, nid, timetableSlotId, substituteTeacherId) ==
  IF timetableSlotId = NoId \/ Falsy(substituteTeacherId)
  THEN Outcome(400, MsgIdsRequired, store, nid)
  ELSE IF findUnique(store, timetableSlotId) = {}
  THEN Outcome(404, MsgSlotNotFound, store, nid)
  ELSE LET slotToUpdate == CHOOSE s \in store : s.id = timetableSlotId
       IN IF ~findTeacher(substituteTeacherId)
          THEN Outcome(400, MsgNotSubstitute, store, nid)
          ELSE IF ~Falsy(slotToUpdate.teacherId) /\ slotToUpdate.teacherId = substituteTeacherId
          THEN Outcome(400, MsgOwnSlot, store, nid)
          ELSE IF AnyOverlap(substituteConflicts(store, slotToUpdate, substituteTeacherId),
                             slotToUpdate.startTime, slotToUpdate.endTime)
          THEN Outcome(409, MsgSubstituteBusy, store, nid)
          ELSE IF slotToUpdate.substituteTeacherId = substituteTeacherId
          THEN Outcome(409, MsgSubstituteConflict, store, nid)
          ELSE Outcome(200, MsgOk, setSubstitute(store, slotToUpdate, substituteTeacherId), nid)

clearSubstituteTeacher(store, nid, timetableSlotId) ==
  IF timetableSlotId = NoId THEN Outcome(400, MsgSlotIdRequired, store, nid)
  ELSE IF findUnique(store, timetableSlotId) = {}
  THEN Outcome(404, MsgSlotNotFound, store, nid)
  ELSE LET slotToUpdate == CHOOSE s \in store : s.id = timetableSlotId
       IN Outcome(200, MsgOk, setSubstitute(store, slotToUpdate, Null), nid)

(***************************************************************************)
(* The effective schedule: getTimetableForClassSection                     *)
(* (GET /admin/timetable/:class/:section?) and getTeacherTimetable of      *)
(* teacher.controller.ts (GET /teacher/timetable).  A response is a status *)
(* and a body, the sequence of the slots returned.                         *)
(***************************************************************************)
MsgClassRequired == "Class parameter is required."
MsgInvalidQueryDate == "Invalid query date format. Use YYYY-MM-DD."

Response(status, msg, body) == [status |-> status, msg |-> msg, body |-> body]

\* The rows of a findMany, in the order of their ids: the order of creation.
RECURSIVE findManyRows(_)
findManyRows(found) ==
  IF found = {} THEN <<>>
  ELSE LET last == CHOOSE s \in found : \A o \in found : o.id <= s.id
       IN Append(findManyRows(found \ {last}), last)

dayOrder(dayOfWeek) ==
  CASE dayOfWeek = "MONDAY" -> 1 [] dayOfWeek = "TUESDAY" -> 2
    [] dayOfWeek = "WEDNESDAY" -> 3 [] dayOfWeek = "THURSDAY" -> 4
    [] dayOfWeek = "FRIDAY" -> 5 [] dayOfWeek = "SATURDAY" -> 6
    [] dayOfWeek = "SUNDAY" -> 7

\* Mutant: the comparator looks at the start time only.
compareSlots_TimeOnly(a, b) ==
  timeToMinutes(a.startTime) - timeToMinutes(b.startTime)

\* The comparator of the sort: negative, zero or positive.
compareSlots(a, b) ==
  LET dayDiff == dayOrder(a.dayOfWeek) - dayOrder(b.dayOfWeek)
  IN IF dayDiff # 0 THEN dayDiff
     ELSE timeToMinutes(a.startTime) - timeToMinutes(b.startTime)

\* x put into the sorted sequence behind the elements that do not sort
\* after it.
insertSorted(sorted, x) ==
  LET k == Cardinality({ i \in 1..Len(sorted) : compareSlots(sorted[i], x) <= 0 })
  IN SubSeq(sorted, 1, k) \o <<x>> \o SubSeq(sorted, k + 1, Len(sorted))

\* Array.prototype.sort with the comparator: a stable sort.
RECURSIVE sortSlots(_)
sortSlots(q) ==
  IF q = <<>> THEN <<>>
  ELSE insertSorted(sortSlots(SubSeq(q, 1, Len(q) - 1)), q[Len(q)])

\* include: { teacher: { select: { id, name } } }: the user row joined, a
\* user's name being <<"name", id>>.
userRelation(uid) ==
  IF uid = Null THEN Null ELSE [id |-> uid, name |-> <<"name", uid>>]

\* targetDate of a query date string that is a date.
targetDateOf(queryDateString) == utcMidnight(getTime(queryDateString))

\* A slot as the class timetable returns it.
classSlotView(slot) ==
  [id |-> slot.id, dayOfWeek |-> slot.dayOfWeek, startTime |-> slot.startTime,
   endTime |-> slot.endTime, currentClass |-> slot.currentClass,
   section |-> slot.section, subject |-> slot.subject, teacherId |-> slot.teacherId,
   substituteTeacherId |-> slot.substituteTeacherId,
   teacher |-> userRelation(slot.teacherId),
   date |-> formatDate(slot.date)]

\* Mutant: the weekly fallback of a date query takes every day of the week.
classSlotsFor_AnyDay(store, studentClass, section, queryDateString) ==
  IF queryDateString.kind # "none"
  THEN LET alternateSlots ==
             { s \in store : /\ s.currentClass = studentClass
                             /\ s.section = OrNull(section)
                             /\ s.date = targetDateOf(queryDateString) }
       IN IF alternateSlots # {} THEN alternateSlots
          ELSE { s \in store : /\ s.currentClass = studentClass
                               /\ s.section = OrNull(section)
                               /\ s.date = NoDate }
  ELSE { s \in store : /\ s.currentClass = studentClass
                       /\ s.section = OrNull(section)
                       /\ s.date = NoDate }

\* The rows the class timetable selects.
classSlotsFor(store, studentClass, section, queryDateString) ==
  IF queryDateString.kind # "none"
  THEN LET targetDate == targetDateOf(queryDateString)
           targetDayOfWeek == getDayOfWeekFromDate(targetDate)
           alternateSlots ==
             { s \in store : /\ s.currentClass = studentClass
                             /\ s.section = OrNull(section)
                             /\ s.date = targetDate }
       IN IF alternateSlots # {} THEN alternateSlots
          ELSE { s \in store : /\ s.currentClass = studentClass
                               /\ s.section = OrNull(section)
                               /\ s.dayOfWeek = targetDayOfWeek
                               /\ s.date = NoDate }
  ELSE { s \in store : /\ s.currentClass = studentClass
                       /\ s.section = OrNull(section)
                       /\ s.date = NoDate }

getTimetableForClassSection(store, studentClass, section, queryDateString) ==
  IF Falsy(studentClass) THEN Response(400, MsgClassRequired, <<>>)
  ELSE IF queryDateString.kind # "none" /\ isNaNDate(queryDateString)
  THEN Response(400, MsgInvalidQueryDate, <<>>)
  ELSE LET slotsFound == findManyRows(classSlotsFor(store, studentClass, section,
                                                    queryDateString))
           sortedSlots == sortSlots(slotsFound)
       IN Response(200, MsgOk, [i \in DOMAIN sortedSlots |-> classSlotView(sortedSlots[i])])

\* Mutant: a teacher keeps the slots handed to a substitute.
teachingAsPrimary_Substituted(found, teacherId) ==
  { s \in found : s.teacherId = teacherId }

\* where: { teacherId, substituteTeacherId: null }
teachingAsPrimary(found, teacherId) ==
  { s \in found : s.teacherId = teacherId /\ s.substituteTeacherId = Null }

\* where: { substituteTeacherId: teacherId }
teachingAsSubstitute(found, teacherId) ==
  { s \in found : s.substituteTeacherId = teacherId }

\* Mutant: the slots of the date that were handed to a substitute do not
\* count when the date is looked up, so the weekly slots come back.
teacherSlotsFor_ActiveOnly(store, teacherId, queryDateString) ==
  IF queryDateString.kind # "none"
  THEN LET ofDate == { s \in store : s.date = targetDateOf(queryDateString) }
           ofDay == { s \in store :
                        /\ s.dayOfWeek = getDayOfWeekFromDate(targetDateOf(queryDateString))
                        /\ s.date = NoDate }
       IN IF teachingAsSubstitute(ofDate, teacherId) # {}
             \/ teachingAsPrimary(ofDate, teacherId) # {}
          THEN findManyRows(teachingAsSubstitute(ofDate, teacherId))
                 \o findManyRows(teachingAsPrimary(ofDate, teacherId))
          ELSE findManyRows(teachingAsPrimary(ofDay, teacherId))
                 \o findManyRows(teachingAsSubstitute(ofDay, teacherId))
  ELSE findManyRows(teachingAsPrimary({ s \in store : s.date = NoDate }, teacherId))
         \o findManyRows(teachingAsSubstitute({ s \in store : s.date = NoDate }, teacherId))

\* effectiveSlotsForTeacher: the rows the teacher timetable selects, in the
\* order the handler concatenates them.
teacherSlotsFor(store, teacherId, queryDateString) ==
  IF queryDateString.kind # "none"
  THEN LET targetDate == targetDateOf(queryDateString)
           targetDayOfWeek == getDayOfWeekFromDate(targetDate)
           ofDate == { s \in store : s.date = targetDate }
           substitutingDateSlots == teachingAsSubstitute(ofDate, teacherId)
           ownDateSpecificSlots == teachingAsPrimary(ofDate, teacherId)
           substitutedDateSlots ==
             { s \in ofDate : s.teacherId = teacherId /\ s.substituteTeacherId # Null }
           ofDay == { s \in store : s.dayOfWeek = targetDayOfWeek /\ s.date = NoDate }
       IN IF substitutingDateSlots # {} \/ ownDateSpecificSlots # {}
             \/ substitutedDateSlots # {}
          THEN findManyRows(substitutingDateSlots) \o findManyRows(ownDateSpecificSlots)
          ELSE findManyRows(teachingAsPrimary(ofDay, teacherId))
                 \o findManyRows(teachingAsSubstitute(ofDay, teacherId))
  ELSE LET regular == { s \in store : s.date = NoDate }
       IN findManyRows(teachingAsPrimary(regular, teacherId))
            \o findManyRows(teachingAsSubstitute(regular, teacherId))

\* The name of the joined user of a relation, undefined when there is none.
nameOfRelation(uid) == IF uid = Null THEN Null ELSE userRelation(uid).name

\* A slot as the teacher timetable returns it to teacherId.
teacherSlotView(slot, teacherId) ==
  [id |-> slot.id, dayOfWeek |-> slot.dayOfWeek, startTime |-> slot.startTime,
   endTime |-> slot.endTime, currentClass |-> slot.currentClass,
   section |-> slot.section, subject |-> slot.subject, teacherId |-> slot.teacherId,
   substituteTeacherId |-> slot.substituteTeacherId,
   teacher |-> userRelation(slot.teacherId),
   substituteTeacher |-> userRelation(slot.substituteTeacherId),
   isSubstituteAssignment |-> (slot.substituteTeacherId = teacherId),
   originalTeacherName |-> nameOfRelation(slot.teacherId),
   teachingTeacherName |-> IF ~Falsy(slot.substituteTeacherId)
                           THEN nameOfRelation(slot.substituteTeacherId)
                           ELSE nameOfRelation(slot.teacherId),
   date |-> formatDate(slot.date)]

getTeacherTimetable(store, teacherId, queryDateString) ==
  IF queryDateString.kind # "none" /\ isNaNDate(queryDateString)
  THEN Response(400, MsgInvalidQueryDate, <<>>)
  ELSE LET effectiveSlotsForTeacher == teacherSlotsFor(store, teacherId, queryDateString)
           finalSlots == [i \in DOMAIN effectiveSlotsForTeacher |->
                            teacherSlotView(effectiveSlotsForTeacher[i], teacherId)]
       IN Response(200, MsgOk, sortSlots(finalSlots))

(***************************************************************************)
(* Requests.                                                               *)
(***************************************************************************)
Time(h1, h2, m1, m2) == <<h1, h2, ":", m1, m2>>

\* Intervals of a valid request: 09:00-10:00 and 10:00-11:00 are adjacent,
\* 09:30-10:30 overlaps both.
ValidIntervals ==
  { <<Time("0", "9", "0", "0"), Time("1", "0", "0", "0")>>,
    <<Time("1", "0", "0", "0"), Time("1", "1", "0", "0")>>,
    <<Time("0", "9", "3", "0"), Time("1", "0", "3", "0")>> }

\* Intervals a request is refused for: inverted, empty, hour 24, minute 60,
\* a one-digit hour, a missing time.
InvalidIntervals ==
  { <<Time("1", "0", "0", "0"), Time("0", "9", "0", "0")>>,
    <<Time("0", "9", "0", "0"), Time("0", "9", "0", "0")>>,
    <<Time("0", "9", "0", "0"), Time("2", "4", "0", "0")>>,
    <<Time("0", "9", "6", "0"), Time("1", "0", "0", "0")>>,
    <<<<"9", ":", "0", "0">>, Time("1", "0", "0", "0")>>,
    <<<<>>, Time("1", "0", "0", "0")>> }

\* 2025-06-09 is a Monday, 2025-06-10 a Tuesday.
Monday9 == DateString("ymd", 2025, 6, 9, 0)

Tuesday10 == DateString("ymd", 2025, 6, 10, 0)

\* "2025-06-09T15:00:00Z"
Monday9Afternoon == DateString("iso", 2025, 6, 9, 15)

NotADate == DateString("bad", 0, 0, 0, 0)

Payload(id, dayOfWeek, interval, currentClass, section, subject, teacherId, date) ==
  [id |-> id, dayOfWeek |-> dayOfWeek, startTime |-> interval[1], endTime |-> interval[2],
   currentClass |-> currentClass, section |-> section, subject |-> subject,
   teacherId |-> teacherId, date |-> date]

SlotInput(interval, currentClass, section, subject, teacherId) ==
  [startTime |-> interval[1], endTime |-> interval[2], currentClass |-> currentClass,
   section |-> section, subject |-> subject, teacherId |-> teacherId]

(***************************************************************************)
(* The state machine: slots is the TimetableSlot table, nextId the id the  *)
(* next created row gets, inflight the position of each client's request   *)
(* while its handler runs.  One action per handler when the handler runs   *)
(* alone; a request that is refused leaves the state as it is.             *)
(***************************************************************************)
\* The clients whose requests run concurrently.
Clients == {"c1", "c2"}

\* No handler is running for the client.
Idle == [pc |-> "idle"]

Init ==
  /\ slots = {}
  /\ nextId = 1
  /\ inflight = [c \in Clients |-> Idle]

\* maxId caps the ids a specification hands out.
UpsertSlot(p, maxId) ==
  LET r == createOrUpdateTimetableSlot(slots, nextId, p)
  IN /\ r.nextId <= maxId + 1
     /\ slots' = r.slots
     /\ nextId' = r.nextId
     /\ UNCHANGED inflight

SetAlternateSchedule(dateString, alternateSlotsData, maxId) ==
  LET r == setAlternateTimetable(slots, nextId, dateString, alternateSlotsData)
  IN /\ r.nextId <= maxId + 1
     /\ slots' = r.slots
     /\ nextId' = r.nextId
     /\ UNCHANGED inflight

AssignSubstitute(timetableSlotId, substituteTeacherId) ==
  LET r == assignSubstituteTeacher(slots, nextId, timetableSlotId, substituteTeacherId)
  IN /\ slots' = r.slots
     /\ nextId' = r.nextId
     /\ UNCHANGED inflight

ClearSubstitute(timetableSlotId) ==
  LET r == clearSubstituteTeacher(slots, nextId, timetableSlotId)
  IN /\ slots' = r.slots
     /\ nextId' = r.nextId
     /\ UNCHANGED inflight

(***************************************************************************)
(* createOrUpdateTimetableSlot step by step: between two awaits of the     *)
(* handler the requests of other clients run.  The handler validates, asks *)
(* for the slots of the teacher, asks for the slots of the class and       *)
(* section, and writes; no transaction spans the queries and the write.    *)
(***************************************************************************)
\* The handler has answered the client.
Done(req, status, msg) == [pc |-> "done", req |-> req, status |-> status, msg |-> msg]

\* The request arrives and is validated.
ReceiveUpsert(c, p) ==
  /\ inflight[c].pc = "idle"
  /\ inflight' = [inflight EXCEPT ![c] =
       IF validateSlotPayload(p) # MsgOk THEN Done(p, 400, validateSlotPayload(p))
       ELSE [pc |-> "teacherCheck", req |-> p]]
  /\ UNCHANGED <<slots, nextId>>

\* findMany of the teacher's slots of the day, and the overlap loop.
CheckTeacherConflict(c) ==
  /\ inflight[c].pc = "teacherCheck"
  /\ LET p == inflight[c].req
         teacherId == EmptyToNull(p.teacherId)
     IN inflight' = [inflight EXCEPT ![c] =
          IF /\ ~Falsy(teacherId)
             /\ AnyOverlap(conflictingTeacherSlots(slots, p.id, teacherId, p.dayOfWeek),
                           p.startTime, p.endTime)
          THEN Done(p, 409, MsgTeacherConflict)
          ELSE [pc |-> "classCheck", req |-> p]]
  /\ UNCHANGED <<slots, nextId>>

\* findMany of the slots of the class, section and day, and the overlap loop.
CheckClassConflict(c) ==
  /\ inflight[c].pc = "classCheck"
  /\ LET p == inflight[c].req
     IN inflight' = [inflight EXCEPT ![c] =
          IF AnyOverlap(conflictingClassSlots(slots, p.id, p.currentClass,
                                              EmptyToNull(p.section), p.dayOfWeek),
                        p.startTime, p.endTime)
          THEN Done(p, 409, MsgClassConflict)
          ELSE [pc |-> "write", req |-> p]]
  /\ UNCHANGED <<slots, nextId>>

\* create or update, and the response.
WriteSlot(c) ==
  /\ inflight[c].pc = "write"
  /\ LET r == persistSlot(slots, nextId, inflight[c].req)
     IN /\ slots' = r.slots
        /\ nextId' = r.nextId
        /\ inflight' = [inflight EXCEPT ![c] = Done(inflight[c].req, r.status, r.msg)]

(***************************************************************************)
(* setAlternateTimetable step by step.  The statements of the transaction  *)
(* work on the rows the transaction sees: the committed rows without the   *)
(* rows it deleted, and the rows it created; other clients see them only   *)
(* when the transaction commits, and never when it is rolled back.         *)
(***************************************************************************)
\* The handlers that read: the next query of each is at inflight[c].pc.
TeacherReadPcs ==
  {"substitutingDateSlots", "ownDateSpecificSlots", "substitutedDateSlots",
   "regularWeeklySlotsForDay", "regularSubstitutingSlots", "regularSlots",
   "substitutingSlots"}

ClassReadPcs == {"alternateSlots", "fallbackSlots", "weeklySlots"}

\* The ids of the slots of a response body, in its order.
idsOf(body) == [i \in DOMAIN body |-> body[i].id]

\* The ids a read request is answered with when its handler runs alone on
\* the rows of store.
answerOf(req, store) ==
  IF req.scope = "teacher"
  THEN idsOf(getTeacherTimetable(store, req.teacherId, req.date).body)
  ELSE idsOf(getTimetableForClassSection(store, req.studentClass, req.section,
                                         req.date).body)

\* inflight after the rows of store were committed: a read in progress
\* records, in views, the answer it would give on the committed rows.
afterCommit(store) ==
  [c \in Clients |->
     IF inflight[c].pc \in TeacherReadPcs \cup ClassReadPcs
     THEN [inflight[c] EXCEPT !.views = @ \cup {answerOf(inflight[c].req, store)}]
     ELSE inflight[c]]

\* The request arrives; the date and the slot inputs are validated.
BeginAlternate(c, dateString, alternateSlotsData) ==
  /\ inflight[c].pc = "idle"
  /\ LET req == [date |-> dateString, slots |-> alternateSlotsData]
     IN inflight' = [inflight EXCEPT ![c] =
          IF dateString.kind = "none" THEN Done(req, 400, MsgDateRequired)
          ELSE IF isNaNDate(dateString) \/ dateString.kind # "ymd"
          THEN Done(req, 400, MsgInvalidDate)
          ELSE IF validateAlternateSlots(alternateSlotsData) # MsgOk
          THEN Done(req, 400, validateAlternateSlots(alternateSlotsData))
          ELSE [pc |-> "deleteMany", req |-> req,
                batch |-> [i \in DOMAIN alternateSlotsData |->
                             normalizeAlternateSlot(alternateSlotsData[i])],
                deleted |-> {}, created |-> {}, i |-> 1]]
  /\ UNCHANGED <<slots, nextId>>

\* tx.timetableSlot.deleteMany({ where: { date } })
TxDeleteMany(c) ==
  /\ inflight[c].pc = "deleteMany"
  /\ LET date == utcMidnight(getTime(inflight[c].req.date))
     IN inflight' = [inflight EXCEPT ![c].pc = "create",
                                     ![c].deleted = slots \ deleteManyByDate(slots, date)]
  /\ UNCHANGED <<slots, nextId>>

\* One turn of the creation loop: the two checks within the batch, then
\* tx.timetableSlot.create; an exception rolls the transaction back.
TxCreate(c) ==
  /\ inflight[c].pc = "create"
  /\ inflight[c].i <= Len(inflight[c].batch)
  /\ LET w == inflight[c]
         date == utcMidnight(getTime(w.req.date))
         row == alternateRow(nextId, w.batch[w.i], getDayOfWeekFromDate(date), date)
     IN IF teacherConflictInPayload(w.batch, w.i)
        THEN /\ inflight' = [inflight EXCEPT ![c] = Done(w.req, 409, MsgTeacherConflictWithin)]
             /\ UNCHANGED nextId
        ELSE IF classConflictInPayload(w.batch, w.i)
        THEN /\ inflight' = [inflight EXCEPT ![c] = Done(w.req, 409, MsgClassConflictWithin)]
             /\ UNCHANGED nextId
        ELSE IF violatesUnique((slots \ w.deleted) \cup w.created, row)
        THEN /\ inflight' = [inflight EXCEPT ![c] = Done(w.req, 409, MsgSlotConflict)]
             /\ UNCHANGED nextId
        ELSE /\ inflight' = [inflight EXCEPT ![c].created = @ \cup {row}, ![c].i = @ + 1]
             /\ nextId' = nextId + 1
  /\ UNCHANGED slots

\* The callback returns: the delete and the inserts are committed together.
TxCommit(c) ==
  /\ inflight[c].pc = "create"
  /\ inflight[c].i > Len(inflight[c].batch)
  /\ slots' = (slots \ inflight[c].deleted) \cup inflight[c].created
  /\ inflight' = [afterCommit(slots') EXCEPT ![c] = Done(inflight[c].req, 201, MsgOk)]
  /\ UNCHANGED nextId

(***************************************************************************)
(* The two read handlers step by step: one findMany per step, each on the  *)
(* rows committed when it runs.                                            *)
(***************************************************************************)
\* The handler has answered a read.
Answered(r, body) ==
  [pc |-> "answered", req |-> r.req, status |-> 200, body |-> body, views |-> r.views]

\* getTeacherTimetable: the request arrives and the query date is parsed.
BeginTeacherRead(c, teacherId, queryDateString) ==
  /\ inflight[c].pc = "idle"
  /\ LET req == [scope |-> "teacher", teacherId |-> teacherId, date |-> queryDateString]
     IN inflight' = [inflight EXCEPT ![c] =
          IF queryDateString.kind # "none" /\ isNaNDate(queryDateString)
          THEN Done(req, 400, MsgInvalidQueryDate)
          ELSE [pc |-> IF queryDateString.kind # "none" THEN "substitutingDateSlots"
                       ELSE "regularSlots",
                req |-> req, first |-> <<>>, second |-> <<>>,
                views |-> {answerOf(req, slots)}]]
  /\ UNCHANGED <<slots, nextId>>

\* The body of the response for the rows selected.
teacherBody(effectiveSlotsForTeacher, teacherId) ==
  sortSlots([i \in DOMAIN effectiveSlotsForTeacher |->
               teacherSlotView(effectiveSlotsForTeacher[i], teacherId)])

\* getTeacherTimetable: the next findMany, and the response after the last.
TeacherReadStep(c) ==
  /\ inflight[c].pc \in TeacherReadPcs
  /\ LET r == inflight[c]
         T == r.req.teacherId
         ofDate == { s \in slots : s.date = targetDateOf(r.req.date) }
         ofDay == { s \in slots :
                      /\ s.dayOfWeek = getDayOfWeekFromDate(targetDateOf(r.req.date))
                      /\ s.date = NoDate }
         regular == { s \in slots : s.date = NoDate }
     IN inflight' = [inflight EXCEPT ![c] =
          CASE r.pc = "substitutingDateSlots" ->
                 [r EXCEPT !.pc = "ownDateSpecificSlots",
                           !.first = findManyRows(teachingAsSubstitute(ofDate, T))]
            [] r.pc = "ownDateSpecificSlots" ->
                 [r EXCEPT !.pc = "substitutedDateSlots",
                           !.second = findManyRows(teachingAsPrimary(ofDate, T))]
            [] r.pc = "substitutedDateSlots" ->
                 IF \/ r.first # <<>> \/ r.second # <<>>
                    \/ \E s \in ofDate : s.teacherId = T /\ s.substituteTeacherId # Null
                 THEN Answered(r, teacherBody(r.first \o r.second, T))
                 ELSE [r EXCEPT !.pc = "regularWeeklySlotsForDay"]
            [] r.pc = "regularWeeklySlotsForDay" ->
                 [r EXCEPT !.pc = "regularSubstitutingSlots",
                           !.first = findManyRows(teachingAsPrimary(ofDay, T))]
            [] r.pc = "regularSubstitutingSlots" ->
                 Answered(r, teacherBody(
                   r.first \o findManyRows(teachingAsSubstitute(ofDay, T)), T))
            [] r.pc = "regularSlots" ->
                 [r EXCEPT !.pc = "substitutingSlots",
                           !.first = findManyRows(teachingAsPrimary(regular, T))]
            [] r.pc = "substitutingSlots" ->
                 Answered(r, teacherBody(
                   r.first \o findManyRows(teachingAsSubstitute(regular, T)), T))]
  /\ UNCHANGED <<slots, nextId>>

\* getTimetableForClassSection: the request arrives, the class is checked
\* and the query date is parsed.
BeginClassRead(c, studentClass, section, queryDateString) ==
  /\ inflight[c].pc = "idle"
  /\ LET req == [scope |-> "class", studentClass |-> studentClass, section |-> section,
                 date |-> queryDateString]
     IN inflight' = [inflight EXCEPT ![c] =
          IF Falsy(studentClass) THEN Done(req, 400, MsgClassRequired)
          ELSE IF queryDateString.kind # "none" /\ isNaNDate(queryDateString)
          THEN Done(req, 400, MsgInvalidQueryDate)
          ELSE [pc |-> IF queryDateString.kind # "none" THEN "alternateSlots"
                       ELSE "weeklySlots",
                req |-> req, views |-> {answerOf(req, slots)}]]
  /\ UNCHANGED <<slots, nextId>>

\* The body of the response for the rows found.
classBody(found) ==
  LET sortedSlots == sortSlots(findManyRows(found))
  IN [i \in DOMAIN sortedSlots |-> classSlotView(sortedSlots[i])]

\* getTimetableForClassSection: the next findMany, and the response after
\* the last.
ClassReadStep(c) ==
  /\ inflight[c].pc \in ClassReadPcs
  /\ LET r == inflight[c]
         scope == { s \in slots : /\ s.currentClass = r.req.studentClass
                                  /\ s.section = OrNull(r.req.section) }
         alternateSlots == { s \in scope : s.date = targetDateOf(r.req.date) }
     IN inflight' = [inflight EXCEPT ![c] =
          CASE r.pc = "alternateSlots" ->
                 IF alternateSlots # {} THEN Answered(r, classBody(alternateSlots))
                 ELSE [r EXCEPT !.pc = "fallbackSlots"]
            [] r.pc = "fallbackSlots" ->
                 Answered(r, classBody(
                   { s \in scope :
                       /\ s.dayOfWeek = getDayOfWeekFromDate(targetDateOf(r.req.date))
                       /\ s.date = NoDate }))
            [] r.pc = "weeklySlots" ->
                 Answered(r, classBody({ s \in scope : s.date = NoDate }))]
  /\ UNCHANGED <<slots, nextId>>

(***************************************************************************)
(* Spec: the four handlers on Monday slots of three profiles (class,       *)
(* section, teacher): two profiles share the class and section, two share  *)
(* the teacher.  Slots are weekly or bound to Monday 2025-06-09.           *)
(***************************************************************************)
Profiles ==
  { <<"Grade10", "A", "T1">>, <<"Grade10", "A", Null>>, <<"Grade9", Null, "T1">> }

RequestIds == 0..MaxId

UpsertPayloads ==
  { Payload(id, "MONDAY", iv, pr[1], pr[2], "Maths", pr[3], date) :
      id \in RequestIds, iv \in ValidIntervals, pr \in Profiles,
      date \in {NoDateString, Monday9} }

SlotInputs ==
  { SlotInput(iv, pr[1], pr[2], "Maths", pr[3]) :
      iv \in ValidIntervals, pr \in { <<"Grade10", "A", "T1">>, <<"Grade10", "A", Null>> } }

Batches ==
  {<<>>} \cup { <<a>> : a \in SlotInputs } \cup { <<a, b>> : a \in SlotInputs, b \in SlotInputs }

Next ==
  \/ \E p \in UpsertPayloads : UpsertSlot(p, MaxId)
  \/ \E b \in Batches : SetAlternateSchedule(Monday9, b, MaxId)
  \/ \E id \in RequestIds : AssignSubstitute(id, "T1")
  \/ \E id \in RequestIds : ClearSubstitute(id)

Spec == Init /\ [][Next]_vars

(***************************************************************************)
(* Properties of the slot scheduler, checked under Spec.                   *)
(***************************************************************************)
\* Half-open intervals [startTime, endTime) of two slots (or requests) meet.
Overlapping(a, b) ==
  /\ timeToMinutes(a.startTime) < timeToMinutes(b.endTime)
  /\ timeToMinutes(b.startTime) < timeToMinutes(a.endTime)

\* The requests that create a slot.
CreatePayloads == { p \in UpsertPayloads : p.id = NoId }

\* The columns a request asks for.
Wanted(p) == slotDataOf(p)

SameClassScope(a, b) ==
  /\ a.currentClass = b.currentClass
  /\ a.section = b.section
  /\ a.dayOfWeek = b.dayOfWeek
  /\ a.date = b.date

\* T teaches slot s, as its teacher or as its substitute.
Committed(T, s) == s.teacherId = T \/ s.substituteTeacherId = T

\* C1: no two distinct persisted slots of the same class, section, day of
\* week and date value have overlapping intervals.
C1_ClassScopeDisjoint ==
  \A a \in slots, b \in slots :
    a.id # b.id /\ SameClassScope(a, b) => ~Overlapping(a, b)

\* Two slots of one class/section scope bound to the same date are persisted.
C1_Witness ==
  \E a \in slots, b \in slots :
    a.id # b.id /\ SameClassScope(a, b) /\ a.date # NoDate

\* C2: for every teacher, no two distinct persisted slots of one day of week
\* and date value in which the teacher is committed, as teacher or as
\* substitute, have overlapping intervals.
C2_TeacherCommitmentsDisjoint ==
  \A T \in {"T1", "T2"} : \A a \in slots, b \in slots :
    /\ a.id # b.id /\ Committed(T, a) /\ Committed(T, b)
    /\ a.dayOfWeek = b.dayOfWeek /\ a.date = b.date
    => ~Overlapping(a, b)

\* C3: creating a slot that overlaps a persisted slot of its class, section,
\* day and date scope is refused with a class/section conflict and nothing
\* is written.
C3_ClassConflictReported ==
  \A a \in slots, p \in CreatePayloads :
    SameClassScope(a, Wanted(p)) /\ Overlapping(a, p)
    => LET r == createOrUpdateTimetableSlot(slots, nextId, p)
       IN r.status = 409 /\ r.msg = MsgClassConflict /\ r.slots = slots

\* C4: creating a slot with the teacher of a persisted slot of the same day
\* whose interval overlaps, whatever the two classes and sections, is refused
\* with a teacher conflict and nothing is written.
C4_TeacherConflictReported ==
  \A a \in slots, p \in CreatePayloads :
    /\ a.teacherId # Null /\ a.teacherId = Wanted(p).teacherId
    /\ a.dayOfWeek = p.dayOfWeek /\ Overlapping(a, p)
    => LET r == createOrUpdateTimetableSlot(slots, nextId, p)
       IN r.status = 409 /\ r.msg = MsgTeacherConflict /\ r.slots = slots

\* A slot of T1 is persisted, and a request for T1 in another class at an
\* overlapping time is refused with a teacher conflict.
C4_Witness ==
  \E a \in slots, p \in CreatePayloads :
    /\ a.teacherId = "T1" /\ p.teacherId = "T1"
    /\ a.currentClass # p.currentClass /\ Overlapping(a, p)
    /\ createOrUpdateTimetableSlot(slots, nextId, p).msg = MsgTeacherConflict

\* C5: a persisted slot never stands in the way of a slot of its scope whose
\* interval does not overlap its own, adjacent intervals included: a request
\* that the other slots allow is created beside it.
C5_DisjointSlotsCoexist ==
  \A a \in slots, p \in CreatePayloads :
    /\ SameClassScope(a, Wanted(p)) /\ ~Overlapping(a, p)
    /\ createOrUpdateTimetableSlot(slots \ {a}, nextId, p).status = 201
    => LET r == createOrUpdateTimetableSlot(slots, nextId, p)
       IN /\ r.status = 201
          /\ r.slots = slots \cup {newRow(nextId, Wanted(p))}

\* Two weekly slots of one scope, the second starting when the first ends.
C5_Witness ==
  \E a \in slots, b \in slots :
    /\ a.id # b.id /\ SameClassScope(a, b) /\ a.date = NoDate
    /\ a.endTime = b.startTime

\* C6: a conflict is only ever reported against a slot of the request's own
\* date scope: slots of another date value never make a creation fail.
C6_ConflictsWithinDateScope ==
  \A p \in CreatePayloads :
    createOrUpdateTimetableSlot(slots, nextId, p).status = 409
    => \E a \in slots :
         /\ a.date = Wanted(p).date /\ a.dayOfWeek = p.dayOfWeek /\ Overlapping(a, p)
         /\ \/ a.currentClass = p.currentClass /\ a.section = Wanted(p).section
            \/ Wanted(p).teacherId # Null /\ Committed(Wanted(p).teacherId, a)

\* The request that updates slot s with its own fields.
OwnPayload(s) ==
  [id |-> s.id, dayOfWeek |-> s.dayOfWeek, startTime |-> s.startTime,
   endTime |-> s.endTime, currentClass |-> s.currentClass, section |-> s.section,
   subject |-> s.subject, teacherId |-> s.teacherId, date |-> formatDate(s.date)]

\* C7: updating a persisted slot with its own id and its own fields succeeds
\* and leaves the store as it is.
C7_OwnUpdateSucceeds ==
  \A s \in slots :
    LET r == createOrUpdateTimetableSlot(slots, nextId, OwnPayload(s))
    IN r.status = 200 /\ r.slots = slots

(***************************************************************************)
(* SpecAlternate: the alternate-day scheduler on two dates, with batches   *)
(* of slot inputs of three profiles (the first two share the class, one    *)
(* with a null and one with an empty section; the first and third share    *)
(* the teacher), next to single slots created weekly or for one of the     *)
(* dates, and a substitute for the first slot created.                     *)
(***************************************************************************)
Nine == <<Time("0", "9", "0", "0"), Time("1", "0", "0", "0")>>

HalfPastNine == <<Time("0", "9", "3", "0"), Time("1", "0", "3", "0")>>

Ten == <<Time("1", "0", "0", "0"), Time("1", "1", "0", "0")>>

AlternateProfiles ==
  { <<"Grade10", Null, "T1">>, <<"Grade10", "", "">>, <<"Grade9", "A", "T1">> }

AlternateSlotInputs ==
  { SlotInput(iv, pr[1], pr[2], "Maths", pr[3]) :
      iv \in ValidIntervals, pr \in AlternateProfiles }

\* The slot inputs of the batches of one, and the first of the batches of two.
FirstSlotInputs ==
  { SlotInput(Nine, "Grade10", Null, "Maths", "T1"),
    SlotInput(HalfPastNine, "Grade10", "", "Maths", "") }

\* Batches of three: one without a conflict; one whose first input meets the
\* second in the class and whose second meets the third in the teacher.
BatchesOfThree ==
  { << SlotInput(Nine, "Grade10", Null, "Maths", "T1"),
       SlotInput(Ten, "Grade10", Null, "Maths", "T1"),
       SlotInput(HalfPastNine, "Grade9", "A", "Maths", "") >>,
    << SlotInput(Nine, "Grade10", "", "Maths", ""),
       SlotInput(HalfPastNine, "Grade10", Null, "Maths", "T1"),
       SlotInput(Ten, "Grade9", "A", "Maths", "T1") >> }

ValidBatches ==
  {<<>>} \cup { <<a>> : a \in FirstSlotInputs }
         \cup { <<a, b>> : a \in FirstSlotInputs, b \in AlternateSlotInputs }
         \cup BatchesOfThree

\* Slot inputs the validation refuses: a bad interval, a user who is no
\* teacher, a missing class, a missing subject.
InvalidSlotInputs ==
  { SlotInput(iv, "Grade10", "A", "Maths", "T1") : iv \in InvalidIntervals }
    \cup { SlotInput(Nine, "Grade10", "A", "Maths", "P1"),
           SlotInput(Nine, "", "A", "Maths", "T1"),
           SlotInput(Nine, "Grade10", "A", Null, "T1") }

\* Batches with an invalid slot input, first or last.
InvalidBatches ==
  { <<x>> : x \in InvalidSlotInputs }
    \cup { <<SlotInput(Nine, "Grade10", Null, "Maths", "T1"), x>> : x \in InvalidSlotInputs }

AlternateBatches == ValidBatches \cup InvalidBatches

AlternateDates == {Monday9, Tuesday10}

\* Date strings the handler refuses: a timestamp, not a date, none.
InvalidDates == {Monday9Afternoon, NotADate, NoDateString}

AlternateRequests ==
  (AlternateDates \X ValidBatches)
    \cup ({Monday9} \X InvalidBatches)
    \cup (InvalidDates \X { <<>>, <<SlotInput(Nine, "Grade10", Null, "Maths", "T1")>> })

AlternateUpsertPayloads ==
  { Payload(NoId, "MONDAY", Nine, "Grade10", Null, "Maths", Null, date) :
      date \in {NoDateString, Monday9, Tuesday10} }

\* The slot a substitute is assigned to or cleared from: the first one created.
AlternateIds == {1}

NextAlternate ==
  \/ \E q \in AlternateRequests : SetAlternateSchedule(q[1], q[2], MaxAlternateId)
  \/ \E p \in AlternateUpsertPayloads : UpsertSlot(p, MaxAlternateId)
  \/ \E id \in AlternateIds : AssignSubstitute(id, "T2")
  \/ \E id \in AlternateIds : ClearSubstitute(id)

SpecAlternate == Init /\ [][NextAlternate]_vars

(***************************************************************************)
(* Properties of the alternate-day scheduler, checked under SpecAlternate. *)
(***************************************************************************)
\* The stored date of a date string the handler accepts.
StoredDate(dateString) == <<epochDay(dateString.y, dateString.m, dateString.d)>>

\* Row s is the row of slot input x on stored date D.
RowOfInput(s, x, D) ==
  /\ s.startTime = x.startTime /\ s.endTime = x.endTime
  /\ s.currentClass = x.currentClass /\ s.subject = x.subject
  /\ s.section = (IF Falsy(x.section) THEN Null ELSE x.section)
  /\ s.teacherId = (IF Falsy(x.teacherId) THEN Null ELSE x.teacherId)
  /\ s.substituteTeacherId = Null
  /\ s.date = D

\* C8: when setAlternateSchedule succeeds for date D on a store that holds
\* slots of D from an earlier call and slots of other dates, the persisted
\* slots of D are exactly the slots of the new batch, one per input and none
\* from before, and the slots of other dates are as they were.
C8_SecondBatchReplacesFirst ==
  \A q \in AlternateDates \X ValidBatches :
    LET r == setAlternateTimetable(slots, nextId, q[1], q[2])
        D == StoredDate(q[1])
        ofDate == { s \in r.slots : s.date = D }
    IN r.status = 201
       => /\ Cardinality(ofDate) = Len(q[2])
          /\ \A s \in ofDate : s \notin slots /\ s.id >= nextId
          /\ \A i \in DOMAIN q[2] :
               \E s \in ofDate : s.id = nextId + i - 1 /\ RowOfInput(s, q[2][i], D)
          /\ { s \in r.slots : s.date # D } = { s \in slots : s.date # D }

\* The first slot created has been replaced, a batch of T1 is persisted for
\* Monday 2025-06-09 beside a weekly slot, and a further batch for that date
\* is accepted.
C8_Witness ==
  /\ 1 \notin Ids(slots)
  /\ \E s \in slots : s.date = StoredDate(Monday9) /\ s.teacherId = "T1"
  /\ \E s \in slots : s.date = NoDate
  /\ \E b \in ValidBatches :
       Len(b) > 0 /\ setAlternateTimetable(slots, nextId, Monday9, b).status = 201

\* C9: a setAlternateSchedule call that fails, whatever its reason, leaves
\* the persisted slots and the id sequence as they were before the call.
C9_FailedBatchWritesNothing ==
  \A q \in AlternateRequests :
    LET r == setAlternateTimetable(slots, nextId, q[1], q[2])
    IN r.status # 201 => r.slots = slots /\ r.nextId = nextId

\* Monday 2025-06-09 has a slot, and a batch for that date is refused for
\* an intra-batch conflict, another for an invalid slot input.
C9_Witness ==
  /\ \E s \in slots : s.date = StoredDate(Monday9)
  /\ \E b \in ValidBatches : setAlternateTimetable(slots, nextId, Monday9, b).status = 409
  /\ \E b \in InvalidBatches : setAlternateTimetable(slots, nextId, Monday9, b).status = 400

\* Two distinct inputs of batch b overlap and share a teacher.
TeacherPair(b) ==
  \E i \in DOMAIN b, j \in DOMAIN b :
    /\ i # j /\ Overlapping(b[i], b[j])
    /\ ~Falsy(b[i].teacherId) /\ b[i].teacherId = b[j].teacherId

\* Two distinct inputs of batch b overlap and share class and section, a
\* null and an empty section being the same section.
ClassPair(b) ==
  \E i \in DOMAIN b, j \in DOMAIN b :
    /\ i # j /\ Overlapping(b[i], b[j])
    /\ b[i].currentClass = b[j].currentClass
    /\ (Falsy(b[i].section) /\ Falsy(b[j].section)) \/ b[i].section = b[j].section

\* C10: a batch of valid inputs for a valid date is refused with status 409
\* and one of the two intra-batch conflict messages exactly when two of its
\* inputs overlap and share a teacher or a class and section; the message
\* names a kind of conflict that some pair of the batch has.
C10_IntraBatchConflicts ==
  \A q \in AlternateDates \X ValidBatches :
    LET r == setAlternateTimetable(slots, nextId, q[1], q[2])
    IN /\ TeacherPair(q[2]) \/ ClassPair(q[2])
          => /\ r.status = 409
             /\ r.msg \in {MsgTeacherConflictWithin, MsgClassConflictWithin}
       /\ r.msg = MsgTeacherConflictWithin => TeacherPair(q[2])
       /\ r.msg = MsgClassConflictWithin => ClassPair(q[2])
       /\ ~TeacherPair(q[2]) /\ ~ClassPair(q[2]) => r.status = 201

\* On a store with slots, a batch whose two inputs share the class, one with
\* a null and one with an empty section, is refused with the class/section
\* message, and a batch whose inputs share only the teacher with the teacher
\* message.
C10_Witness ==
  /\ slots # {}
  /\ \E b \in ValidBatches :
       /\ Len(b) = 2 /\ b[1].section # b[2].section /\ ~TeacherPair(b)
       /\ setAlternateTimetable(slots, nextId, Monday9, b).msg = MsgClassConflictWithin
  /\ \E b \in ValidBatches :
       /\ Len(b) = 2 /\ ~ClassPair(b)
       /\ setAlternateTimetable(slots, nextId, Monday9, b).msg = MsgTeacherConflictWithin

\* C11: a successful setAlternateSchedule for date D removes every slot that
\* was persisted with date D, whatever its class, section or teacher and
\* whichever handler created it, and leaves every slot persisted with no date
\* or another date exactly as it was.
C11_BatchDeletesOnlyItsDate ==
  \A q \in AlternateDates \X ValidBatches :
    LET r == setAlternateTimetable(slots, nextId, q[1], q[2])
        D == StoredDate(q[1])
    IN r.status = 201
       => /\ \A s \in slots : s.date = D => s \notin r.slots /\ s.id \notin Ids(r.slots)
          /\ \A s \in slots : s.date # D => s \in r.slots

\* Monday 2025-06-09 has a slot created singly and one created by a batch,
\* a weekly slot and a slot of Tuesday are persisted, and a batch for Monday
\* is accepted.
C11_Witness ==
  /\ \E s \in slots : s.date = StoredDate(Monday9) /\ s.teacherId = Null
  /\ \E s \in slots : s.date = StoredDate(Monday9) /\ s.teacherId = "T1"
  /\ \E s \in slots : s.date = NoDate
  /\ \E b \in ValidBatches : setAlternateTimetable(slots, nextId, Monday9, b).status = 201

(***************************************************************************)
(* SpecSubstitute: substitutes on Monday slots taught by T1, T2 or nobody: *)
(* a weekly slot of one class at 09:00, and slots of another class that    *)
(* overlap it (09:30, weekly or bound to Monday 2025-06-09) or follow it   *)
(* (10:00, weekly).  Slots are created and updated singly or replaced by a *)
(* batch; substitutes are teachers, a parent, or missing.                  *)
(***************************************************************************)
\* Class, section, interval and date of the slots requested.
SubstituteProfiles ==
  { <<"Grade10", "A", Nine, NoDateString>>,
    <<"Grade9", Null, HalfPastNine, NoDateString>>,
    <<"Grade9", Null, HalfPastNine, Monday9>>,
    <<"Grade9", Null, Ten, NoDateString>> }

SubstituteUpsertPayloads ==
  { Payload(id, "MONDAY", pr[3], pr[1], pr[2], "Maths", teacherId, pr[4]) :
      id \in 0..MaxSubstituteId, pr \in SubstituteProfiles, teacherId \in {"T1", "T2", Null} }

SubstituteBatches ==
  { <<>>, <<SlotInput(HalfPastNine, "Grade9", Null, "Maths", "T2")>> }

\* The ids of a substitute request: none, the ids of rows and one past them.
SubstituteRequestIds == 0..(MaxSubstituteId + 1)

SubstituteTeacherIds == {"T1", "T2", "P1", ""}

NextSubstitute ==
  \/ \E p \in SubstituteUpsertPayloads : UpsertSlot(p, MaxSubstituteId)
  \/ \E b \in SubstituteBatches : SetAlternateSchedule(Monday9, b, MaxSubstituteId)
  \/ \E id \in SubstituteRequestIds, T \in SubstituteTeacherIds : AssignSubstitute(id, T)
  \/ \E id \in SubstituteRequestIds : ClearSubstitute(id)

SpecSubstitute == Init /\ [][NextSubstitute]_vars

(***************************************************************************)
(* Properties of the substitute assignment, checked under SpecSubstitute.  *)
(***************************************************************************)
\* Store `after` is store `before` with the substitute of the slot of id
\* `id` set to T and nothing else changed.
OnlySubstituteChanged(before, after, id, T) ==
  /\ Ids(after) = Ids(before)
  /\ Cardinality(after) = Cardinality(before)
  /\ \A s \in before :
       \E u \in after :
         /\ u.id = s.id
         /\ u.teacherId = s.teacherId /\ u.startTime = s.startTime
         /\ u.endTime = s.endTime /\ u.currentClass = s.currentClass
         /\ u.section = s.section /\ u.subject = s.subject
         /\ u.dayOfWeek = s.dayOfWeek /\ u.date = s.date
         /\ u.substituteTeacherId = (IF s.id = id THEN T ELSE s.substituteTeacherId)

\* C12: a successful assignSubstitute(slotId, T) changes only the
\* substituteTeacherId of that slot, to T; a successful
\* clearSubstitute(slotId) changes only it, to null; every other column and
\* every other slot stay as they were.
C12_OnlySubstituteChanges ==
  \A id \in SubstituteRequestIds :
    /\ \A T \in SubstituteTeacherIds :
         LET r == assignSubstituteTeacher(slots, nextId, id, T)
         IN r.status = 200
            => id \in Ids(slots) /\ OnlySubstituteChanged(slots, r.slots, id, T)
                 /\ r.nextId = nextId
    /\ LET r == clearSubstituteTeacher(slots, nextId, id)
       IN r.status = 200
          => id \in Ids(slots) /\ OnlySubstituteChanged(slots, r.slots, id, Null)
               /\ r.nextId = nextId

\* A slot of T1 has the substitute T2 beside a second slot, and its
\* substitute can be cleared.
C12_Witness ==
  /\ \E s \in slots, o \in slots :
       s.id # o.id /\ s.teacherId = "T1" /\ s.substituteTeacherId = "T2"
  /\ \E s \in slots :
       s.substituteTeacherId = "T2" /\ clearSubstituteTeacher(slots, nextId, s.id).status = 200

\* T is committed to another slot of the day and date of slot s whose
\* interval overlaps that of s.
BusyElsewhere(T, s) ==
  \E o \in slots :
    /\ o.id # s.id /\ Committed(T, o)
    /\ o.dayOfWeek = s.dayOfWeek /\ o.date = s.date /\ Overlapping(o, s)

\* C13: assigning the teacher of a slot as its own substitute is refused
\* with status 400 and the self-substitution message and writes nothing,
\* whatever the other commitments of that teacher are.
C13_SelfSubstitutionRefused ==
  \A s \in slots :
    s.teacherId # Null
    => LET r == assignSubstituteTeacher(slots, nextId, s.id, s.teacherId)
       IN r.status = 400 /\ r.msg = MsgOwnSlot /\ r.slots = slots

\* A slot of T1 is persisted while T1 is the substitute of an overlapping
\* slot of the same day and date.
C13_Witness ==
  \E s \in slots : s.teacherId = "T1" /\ BusyElsewhere("T1", s)

\* C14: no persisted slot has a substitute who is its own teacher.
C14_NoSelfSubstitute ==
  \A s \in slots : s.substituteTeacherId # Null => s.substituteTeacherId # s.teacherId

\* C15: assigning T, who is not the teacher of slot s, as its substitute is
\* refused with status 409 and writes nothing when T is committed, as
\* teacher or as substitute, to another slot of the same day of week and
\* date value that overlaps s, and when T already is the substitute of s.
C15_BusySubstituteRefused ==
  \A s \in slots, T \in {"T1", "T2"} :
    s.teacherId # T /\ (BusyElsewhere(T, s) \/ s.substituteTeacherId = T)
    => LET r == assignSubstituteTeacher(slots, nextId, s.id, T)
       IN /\ r.status = 409 /\ r.slots = slots
          /\ r.msg \in {MsgSubstituteBusy, MsgSubstituteConflict}

\* T2 is the substitute of a slot and of nothing else, and is refused for an
\* overlapping slot of the same day and date of which T2 is neither teacher
\* nor substitute.
C15_Witness ==
  \E s \in slots, o \in slots :
    /\ s.id # o.id /\ o.substituteTeacherId = "T2" /\ o.teacherId # "T2"
    /\ s.teacherId # "T2" /\ s.substituteTeacherId # "T2"
    /\ o.dayOfWeek = s.dayOfWeek /\ o.date = s.date /\ Overlapping(o, s)
    /\ assignSubstituteTeacher(slots, nextId, s.id, "T2").msg = MsgSubstituteBusy

\* C16: assigning T as the substitute of a weekly slot W is refused with
\* status 409 when T is the substitute of another slot, bound to a date that
\* falls on W's day of week, whose interval overlaps W's, also when T is not
\* yet the substitute of W.
C16_DateBoundCommitmentBlocksWeekly ==
  \A W \in slots, o \in slots, T \in {"T1", "T2"} :
    /\ W.date = NoDate /\ o.date # NoDate /\ o.id # W.id
    /\ getDayOfWeekFromDate(o.date) = W.dayOfWeek
    /\ o.substituteTeacherId = T /\ Overlapping(o, W)
    /\ W.teacherId # T
    => assignSubstituteTeacher(slots, nextId, W.id, T).status = 409

\* C17: assignSubstitute and clearSubstitute for an id that no persisted
\* slot has answer 404 and write nothing; for assignSubstitute also when the
\* substitute is no teacher.
C17_MissingSlotNotFound ==
  \A id \in SubstituteRequestIds \ (Ids(slots) \cup {NoId}) :
    /\ \A T \in SubstituteTeacherIds \ {""} :
         LET r == assignSubstituteTeacher(slots, nextId, id, T)
         IN r.status = 404 /\ r.msg = MsgSlotNotFound /\ r.slots = slots
    /\ LET r == clearSubstituteTeacher(slots, nextId, id)
       IN r.status = 404 /\ r.msg = MsgSlotNotFound /\ r.slots = slots

\* Slots are persisted, one of them with a substitute, and a requested id
\* is the id of none of them.
C17_Witness ==
  /\ \E s \in slots : s.substituteTeacherId = "T2"
  /\ \E id \in SubstituteRequestIds \ {NoId} : id \notin Ids(slots)

(***************************************************************************)
(* SpecSchedule: the stores the effective schedule is read from.  Slots of *)
(* Grade10 section A (weekly on Monday and on Tuesday, and bound to Monday *)
(* 2025-06-09), of Grade10 section B, of Grade10 without a section and   *)
(* of Grade9 without a section are created singly or by a batch for Monday *)
(* 2025-06-09; T1 and T2 teach them and substitute each other.             *)
(***************************************************************************)
SchedulePayloads ==
  { Payload(NoId, "MONDAY", Nine, "Grade10", "A", "Maths", "T1", NoDateString),
    Payload(NoId, "TUESDAY", Nine, "Grade10", "A", "Maths", "T1", NoDateString),
    Payload(NoId, "MONDAY", Ten, "Grade10", "A", "Maths", "T1", Monday9),
    Payload(NoId, "MONDAY", HalfPastNine, "Grade10", "B", "Maths", "T2", NoDateString),
    Payload(NoId, "MONDAY", Ten, "Grade9", "", "Maths", "T2", Monday9),
    Payload(NoId, "MONDAY", Ten, "Grade10", "A", "Maths", "T1", NoDateString),
    Payload(NoId, "MONDAY", HalfPastNine, "Grade10", "", "Maths", "", NoDateString) }

ScheduleBatches ==
  { <<SlotInput(HalfPastNine, "Grade10", "A", "Maths", "T2")>> }

ScheduleIds == 1..MaxScheduleId

NextSchedule ==
  \/ \E p \in SchedulePayloads : UpsertSlot(p, MaxScheduleId)
  \/ \E b \in ScheduleBatches : SetAlternateSchedule(Monday9, b, MaxScheduleId)
  \/ \E id \in ScheduleIds, T \in {"T1", "T2"} : AssignSubstitute(id, T)
  \/ \E id \in ScheduleIds : ClearSubstitute(id)

SpecSchedule == Init /\ [][NextSchedule]_vars

(***************************************************************************)
(* Properties of the effective schedule, checked under SpecSchedule.       *)
(***************************************************************************)
\* The queries: a class, a section (none, or one of two) and a date string
\* (none, a Monday, the Tuesday after it, a timestamp on that Monday).
QueryClasses == {"Grade10", "Grade9"}

QuerySections == {Null, "A", "B"}

QueryDates == {NoDateString, Monday9, Tuesday10, Monday9Afternoon}

\* The ids of the slots of a response body.
BodyIds(body) == { body[i].id : i \in DOMAIN body }

\* The slots of class X and section Y.
ClassScope(X, Y) == { s \in slots : s.currentClass = X /\ s.section = Y }

\* The slots the class-scope effective schedule is to return.
ExpectedClassSchedule(X, Y, q) ==
  IF q.kind = "none" THEN { s \in ClassScope(X, Y) : s.date = NoDate }
  ELSE IF \E s \in ClassScope(X, Y) : s.date = StoredDate(q)
  THEN { s \in ClassScope(X, Y) : s.date = StoredDate(q) }
  ELSE { s \in ClassScope(X, Y) :
           s.date = NoDate /\ s.dayOfWeek = DayOfWeek[((StoredDate(q)[1] + 4) % 7) + 1] }

\* C18: the class-scope effective schedule of class X and section Y returns,
\* for a date D, exactly the slots of (X, Y) bound to D when there is one and
\* otherwise exactly the weekly slots of (X, Y) of D's day of week; without
\* a date exactly the weekly slots of (X, Y); each slot once, and never a
\* slot of another class or section.
C18_ClassEffectiveSchedule ==
  \A X \in QueryClasses, Y \in QuerySections, q \in QueryDates :
    LET r == getTimetableForClassSection(slots, X, Y, q)
    IN /\ r.status = 200
       /\ BodyIds(r.body) = Ids(ExpectedClassSchedule(X, Y, q))
       /\ Len(r.body) = Cardinality(ExpectedClassSchedule(X, Y, q))
       /\ \A i \in DOMAIN r.body :
            \E s \in slots :
              /\ s.id = r.body[i].id /\ s.currentClass = X /\ s.section = Y
              /\ r.body[i].startTime = s.startTime /\ r.body[i].dayOfWeek = s.dayOfWeek

\* Grade10 A has a slot bound to Monday 2025-06-09 and weekly slots on
\* Monday and on Tuesday: the query for the Monday returns the bound slot
\* only, the query for the Tuesday the weekly Tuesday slot only.
C18_Witness ==
  /\ \E s \in ClassScope("Grade10", "A") : s.date = StoredDate(Monday9)
  /\ \E s \in ClassScope("Grade10", "A") : s.date = NoDate /\ s.dayOfWeek = "MONDAY"
  /\ \E s \in ClassScope("Grade10", "A") : s.date = NoDate /\ s.dayOfWeek = "TUESDAY"
  /\ Len(getTimetableForClassSection(slots, "Grade10", "A", Monday9).body) = 1
  /\ Len(getTimetableForClassSection(slots, "Grade10", "A", Tuesday10).body) = 1

\* The query date of the scope a slot belongs to: none for a weekly slot,
\* its date for a date-bound one.
ScopeQuery(s) == formatDate(s.date)

\* The rows of a response body that show slot s.
RowsOf(body, s) == { i \in DOMAIN body : body[i].id = s.id }

\* C19: in the teacher-scope schedule of the scope a slot belongs to, a slot
\* of T1 with substitute T2 appears in T2's schedule, flagged as a
\* substitute assignment, and not in T1's; a slot of T1 without a substitute
\* appears in T1's schedule, not flagged; no slot appears twice in a result.
C19_SubstituteSeesSlot ==
  \A s \in slots :
    LET ofT1 == getTeacherTimetable(slots, "T1", ScopeQuery(s)).body
        ofT2 == getTeacherTimetable(slots, "T2", ScopeQuery(s)).body
    IN /\ s.teacherId = "T1" /\ s.substituteTeacherId = "T2"
          => /\ RowsOf(ofT1, s) = {}
             /\ \E i \in RowsOf(ofT2, s) : ofT2[i].isSubstituteAssignment
       /\ s.teacherId = "T1" /\ s.substituteTeacherId = Null
          => \E i \in RowsOf(ofT1, s) : ~ofT1[i].isSubstituteAssignment
       /\ Cardinality(RowsOf(ofT1, s)) <= 1 /\ Cardinality(RowsOf(ofT2, s)) <= 1

\* A weekly slot and a date-bound slot of T1 both have T2 as substitute,
\* beside a slot T1 teaches unsubstituted.
C19_Witness ==
  /\ \E s \in slots : s.teacherId = "T1" /\ s.substituteTeacherId = "T2" /\ s.date = NoDate
  /\ \E s \in slots : s.teacherId = "T1" /\ s.substituteTeacherId = "T2" /\ s.date # NoDate
  /\ \E s \in slots : s.teacherId = "T1" /\ s.substituteTeacherId = Null

\* Teacher T teaches slot s: as its substitute, or as its teacher when it
\* has no substitute.
Teaches(T, s) ==
  s.substituteTeacherId = T \/ (s.teacherId = T /\ s.substituteTeacherId = Null)

\* The slots the teacher-scope effective schedule of T for date q is to
\* return.
ExpectedTeacherSchedule(T, q) ==
  IF \E s \in slots : s.date = StoredDate(q) /\ Committed(T, s)
  THEN { s \in slots : s.date = StoredDate(q) /\ Teaches(T, s) }
  ELSE { s \in slots : /\ s.date = NoDate /\ Teaches(T, s)
                       /\ s.dayOfWeek = DayOfWeek[((StoredDate(q)[1] + 4) % 7) + 1] }

\* C20: the teacher-scope schedule for a date D returns, when the teacher
\* has a slot bound to D (as teacher, substituted or not, or as substitute),
\* exactly the slots bound to D the teacher teaches and no weekly slot, and
\* otherwise exactly the weekly slots of D's day of week the teacher teaches.
C20_TeacherDateSchedule ==
  \A T \in {"T1", "T2"}, q \in QueryDates \ {NoDateString} :
    LET r == getTeacherTimetable(slots, T, q)
    IN /\ r.status = 200
       /\ BodyIds(r.body) = Ids(ExpectedTeacherSchedule(T, q))
       /\ Len(r.body) = Cardinality(ExpectedTeacherSchedule(T, q))

\* The only slot of T1 bound to Monday 2025-06-09 has a substitute, T1 has a
\* weekly Monday slot, and T1's schedule for that Monday is empty.
C20_Witness ==
  /\ \E s \in slots :
       s.date = StoredDate(Monday9) /\ s.teacherId = "T1" /\ s.substituteTeacherId = "T2"
  /\ \E s \in slots :
       /\ s.date = NoDate /\ s.dayOfWeek = "MONDAY"
       /\ s.teacherId = "T1" /\ s.substituteTeacherId = Null
  /\ getTeacherTimetable(slots, "T1", Monday9).body = <<>>

\* The days of a week as the schedule lists them.
WeekFromMonday ==
  <<"MONDAY", "TUESDAY", "WEDNESDAY", "THURSDAY", "FRIDAY", "SATURDAY", "SUNDAY">>

DayRank(dayOfWeek) == CHOOSE i \in 1..7 : WeekFromMonday[i] = dayOfWeek

\* Row a of a result may stand before row b: an earlier day, or the same
\* day and a start that is not later in minutes since midnight.
NotAfter(a, b) ==
  \/ DayRank(a.dayOfWeek) < DayRank(b.dayOfWeek)
  \/ /\ a.dayOfWeek = b.dayOfWeek
     /\ timeToMinutes(a.startTime) <= timeToMinutes(b.startTime)

InOrder(body) == \A i \in 1..(Len(body) - 1) : NotAfter(body[i], body[i + 1])

\* C21: every result of the class-scope and of the teacher-scope effective
\* schedule is ordered by day of week, MONDAY first and SUNDAY last, and
\* within a day by start time in minutes since midnight.
C21_ResultsOrdered ==
  /\ \A X \in QueryClasses, Y \in QuerySections, q \in QueryDates :
       InOrder(getTimetableForClassSection(slots, X, Y, q).body)
  /\ \A T \in {"T1", "T2"}, q \in QueryDates :
       InOrder(getTeacherTimetable(slots, T, q).body)

\* The weekly slots of Grade10 A were created latest first (Tuesday 09:00,
\* Monday 10:00, Monday 09:00) and are returned, to the class and to their
\* teacher, in the opposite order.
C21_Witness ==
  /\ \E s \in slots : s.id = 1 /\ s.dayOfWeek = "TUESDAY" /\ s.date = NoDate
  /\ \E s \in slots : s.id = 2 /\ s.dayOfWeek = "MONDAY" /\ s.startTime = Ten[1]
                               /\ s.date = NoDate
  /\ \E s \in slots : s.id = 3 /\ s.dayOfWeek = "MONDAY" /\ s.startTime = Nine[1]
                               /\ s.date = NoDate
  /\ LET body == getTimetableForClassSection(slots, "Grade10", "A", NoDateString).body
     IN Len(body) = 3 /\ body[1].id = 3 /\ body[2].id = 2 /\ body[3].id = 1
  /\ LET body == getTeacherTimetable(slots, "T1", NoDateString).body
     IN Len(body) = 3 /\ body[1].id = 3 /\ body[2].id = 2 /\ body[3].id = 1

(***************************************************************************)
(* Properties of the persisted slots, checked under SpecAlternate.         *)
(***************************************************************************)
\* C22: every persisted slot with a date has the day of week of that date
\* (UTC), whether a batch wrote it or a single request with a date did.
C22_DayOfWeekMatchesDate ==
  \A s \in slots :
    s.date # NoDate => s.dayOfWeek = DayOfWeek[((s.date[1] + 4) % 7) + 1]

\* A time of day HH:MM with hours 0-23 and minutes 0-59.
ValidClock(time) ==
  /\ Len(time) = 5 /\ time[3] = ":"
  /\ \A i \in {1, 2, 4, 5} : time[i] \in DOMAIN DigitValue
  /\ 10 * DigitValue[time[1]] + DigitValue[time[2]] <= 23
  /\ 10 * DigitValue[time[4]] + DigitValue[time[5]] <= 59

\* Single requests, creating a slot or updating the first one, and batches
\* whose interval is malformed, empty or inverted.
MistimedPayloads ==
  { Payload(id, "MONDAY", iv, "Grade10", Null, "Maths", Null, date) :
      id \in {NoId, 1}, iv \in InvalidIntervals, date \in {NoDateString, Monday9} }

MistimedBatches ==
  { <<SlotInput(iv, "Grade10", "A", "Maths", "T1")>> : iv \in InvalidIntervals }
    \cup { <<SlotInput(Nine, "Grade10", Null, "Maths", "T1"),
             SlotInput(iv, "Grade10", "A", "Maths", "T1")>> : iv \in InvalidIntervals }

\* C23: every persisted slot has valid HH:MM times with the start strictly
\* before the end in minutes since midnight; a single request or a batch
\* with a malformed time or with a start that is not before its end is
\* refused with 400 and nothing is written.
C23_TimesValidAndOrdered ==
  /\ \A s \in slots :
       /\ ValidClock(s.startTime) /\ ValidClock(s.endTime)
       /\ timeToMinutes(s.startTime) < timeToMinutes(s.endTime)
  /\ \A p \in MistimedPayloads :
       LET r == createOrUpdateTimetableSlot(slots, nextId, p)
       IN r.status = 400 /\ r.slots = slots /\ r.nextId = nextId
  /\ \A b \in MistimedBatches :
       LET r == setAlternateTimetable(slots, nextId, Monday9, b)
       IN r.status = 400 /\ r.slots = slots /\ r.nextId = nextId

\* The store holds a slot a single request wrote (the first one, weekly) and
\* slots a batch wrote for Monday 2025-06-09, which a mistimed batch for that
\* date leaves in place.
C23_Witness ==
  /\ \E s \in slots : s.id = 1 /\ s.date = NoDate
  /\ \E s \in slots : s.date = StoredDate(Monday9) /\ s.teacherId = "T1"
  /\ \E s \in slots : s.date = StoredDate(Monday9) /\ s.startTime = HalfPastNine[1]
  /\ \A b \in MistimedBatches :
       setAlternateTimetable(slots, nextId, Monday9, b).slots = slots

(***************************************************************************)
(* Properties of the section scopes, checked under SpecSchedule.           *)
(***************************************************************************)
\* Requests that create a Monday slot of Grade10 without a teacher, for no
\* section (null or the empty string), section A or section B.
SectionPayloads ==
  { Payload(NoId, "MONDAY", iv, "Grade10", section, "Maths", teacherId, date) :
      iv \in {Nine, HalfPastNine, Ten}, section \in {Null, "", "A", "B"},
      teacherId \in {Null, ""}, date \in {NoDateString, Monday9} }

\* The section a request is stored with.
SectionOf(p) == IF p.section = "" THEN Null ELSE p.section

\* The persisted slots of the class and day of request p that overlap it.
OverlappingInClass(p) ==
  { s \in slots : /\ s.currentClass = p.currentClass /\ s.dayOfWeek = p.dayOfWeek
                  /\ Overlapping(s, p) }

\* C24: a slot of a class conflicts with an overlapping slot of the same
\* class and day only if the two have the same section, no section (null,
\* or the empty string) being a section of its own: a request without a
\* teacher is refused with a class/section conflict exactly when a
\* persisted overlapping slot of its class and day has its section, and is
\* created otherwise.
C24_SectionsIndependent ==
  \A p \in SectionPayloads :
    LET r == createOrUpdateTimetableSlot(slots, nextId, p)
    IN IF \E s \in OverlappingInClass(p) : s.section = SectionOf(p)
       THEN r.status = 409 /\ r.msg = MsgClassConflict /\ r.slots = slots
       ELSE /\ r.status = 201
            /\ \E s \in r.slots \ slots :
                 /\ s.section = SectionOf(p) /\ s.currentClass = p.currentClass
                 /\ s.startTime = p.startTime

\* Grade10 has, on Monday, a slot without a section and a slot of section B
\* at 09:30 and a slot of section A at 09:00: the three overlap; a further
\* slot without a section at 09:00 is refused.
C24_Witness ==
  /\ \E s \in slots : /\ s.currentClass = "Grade10" /\ s.section = Null
                      /\ s.dayOfWeek = "MONDAY" /\ s.startTime = HalfPastNine[1]
  /\ \E s \in slots : /\ s.currentClass = "Grade10" /\ s.section = "B"
                      /\ s.dayOfWeek = "MONDAY" /\ s.startTime = HalfPastNine[1]
  /\ \E s \in slots : /\ s.currentClass = "Grade10" /\ s.section = "A"
                      /\ s.dayOfWeek = "MONDAY" /\ s.startTime = Nine[1]
  /\ createOrUpdateTimetableSlot(slots, nextId,
       Payload(NoId, "MONDAY", Nine, "Grade10", "", "Maths", "", NoDateString)).status = 409

(***************************************************************************)
(* The order of the two conflict checks, checked under Spec.               *)
(***************************************************************************)
\* C25: a request that overlaps both a persisted slot of its class, section,
\* day and date scope and a persisted slot of its teacher on that day and
\* date is refused with the class/section conflict.
C25_ClassConflictReportedFirst ==
  \A p \in CreatePayloads :
    /\ \E a \in slots : SameClassScope(a, Wanted(p)) /\ Overlapping(a, p)
    /\ \E b \in slots : /\ b.teacherId # Null /\ b.teacherId = Wanted(p).teacherId
                        /\ b.dayOfWeek = p.dayOfWeek /\ b.date = Wanted(p).date
                        /\ Overlapping(b, p)
    => LET r == createOrUpdateTimetableSlot(slots, nextId, p)
       IN r.status = 409 /\ r.msg = MsgClassConflict

(***************************************************************************)
(* Properties of the update by id, checked under SpecSubstitute.           *)
(***************************************************************************)
\* The requests that update a slot.
UpdatePayloads == { p \in SubstituteUpsertPayloads : p.id # NoId }

\* The row an update by request p is to leave for the row old.
RewrittenRow(old, p) ==
  [id |-> old.id,
   substituteTeacherId |-> old.substituteTeacherId,
   dayOfWeek |-> p.dayOfWeek,
   startTime |-> p.startTime,
   endTime |-> p.endTime,
   currentClass |-> p.currentClass,
   section |-> IF p.section = "" THEN Null ELSE p.section,
   subject |-> p.subject,
   teacherId |-> IF p.teacherId = "" THEN Null ELSE p.teacherId,
   date |-> IF p.date = NoDateString THEN NoDate ELSE StoredDate(p.date)]

\* C29: an update by id that succeeds rewrites dayOfWeek, startTime,
\* endTime, class, section, subject, teacherId and date from the request
\* and leaves the id and the substitute of the slot, and every other slot,
\* as they were; a request without a date makes the slot weekly.
C29_UpdateRewritesAllButSubstitute ==
  \A p \in UpdatePayloads :
    LET r == createOrUpdateTimetableSlot(slots, nextId, p)
    IN r.status = 200
       => /\ r.nextId = nextId
          /\ \E old \in slots :
               /\ old.id = p.id
               /\ r.slots = (slots \ {old}) \cup {RewrittenRow(old, p)}
               /\ p.date = NoDateString => \A s \in r.slots : s.id = p.id => s.date = NoDate

\* A slot bound to a date has a substitute, and an update of it that names
\* no date succeeds: the slot becomes weekly and keeps the substitute.
C29_Witness ==
  \E old \in slots, p \in UpdatePayloads :
    /\ old.id = p.id /\ old.date # NoDate /\ old.substituteTeacherId # Null
    /\ p.date = NoDateString /\ p.currentClass # old.currentClass
    /\ LET r == createOrUpdateTimetableSlot(slots, nextId, p)
       IN /\ r.status = 200
          /\ \E s \in r.slots :
               /\ s.id = old.id /\ s.date = NoDate
               /\ s.substituteTeacherId = old.substituteTeacherId
               /\ s.currentClass = p.currentClass

(***************************************************************************)
(* Refused requests, checked under SpecSubstitute.                         *)
(***************************************************************************)
\* The statuses of a validation error, a missing slot and a conflict.
Refusals == {400, 404, 409}

\* The outcomes of the requests of the four operations on the store: single
\* requests and batches, well-formed or not, and substitutes of every kind
\* for every id.
RequestOutcomes ==
  { createOrUpdateTimetableSlot(slots, nextId, p) :
      p \in SubstituteUpsertPayloads \cup MistimedPayloads }
    \cup { setAlternateTimetable(slots, nextId, q[1], q[2]) : q \in AlternateRequests }
    \cup { assignSubstituteTeacher(slots, nextId, id, T) :
             id \in SubstituteRequestIds, T \in SubstituteTeacherIds }
    \cup { clearSubstituteTeacher(slots, nextId, id) : id \in SubstituteRequestIds }

\* C28: a request of upsertSlot, setAlternateSchedule, assignSubstitute or
\* clearSubstitute that ends in a validation error, a conflict or a missing
\* slot leaves the persisted slots exactly as they were.
C28_RefusedRequestsWriteNothing ==
  \A r \in RequestOutcomes :
    r.status \in Refusals => r.slots = slots /\ r.nextId = nextId

\* A store with slots on which each operation has a refused request: a
\* single request and a batch with a conflict, a substitute who is busy,
\* and a substitute assigned to, and cleared from, a slot that is missing.
C28_Witness ==
  /\ slots # {}
  /\ \E p \in SubstituteUpsertPayloads :
       createOrUpdateTimetableSlot(slots, nextId, p).status = 409
  /\ \E q \in AlternateRequests :
       /\ setAlternateTimetable(slots, nextId, q[1], q[2]).status = 409
       /\ \E s \in slots : s.date = StoredDate(q[1])
  /\ \E id \in SubstituteRequestIds, T \in SubstituteTeacherIds :
       assignSubstituteTeacher(slots, nextId, id, T).status = 409
  /\ \E id \in SubstituteRequestIds :
       /\ assignSubstituteTeacher(slots, nextId, id, "T1").status = 404
       /\ clearSubstituteTeacher(slots, nextId, id).status = 404

(***************************************************************************)
(* The batch and the slots already persisted, checked under SpecSubstitute.*)
(***************************************************************************)
\* Slot inputs that meet the slots of SpecSubstitute in class, section, time
\* and teacher.
OverlayInputs ==
  { SlotInput(iv, pr[1], pr[2], "Maths", T) :
      iv \in {Nine, HalfPastNine, Ten},
      pr \in { <<"Grade10", "A">>, <<"Grade9", Null>> }, T \in {"T1", "T2"} }

OverlayBatches ==
  { <<x>> : x \in OverlayInputs }
    \cup { <<x, y>> : x \in { SlotInput(HalfPastNine, "Grade9", Null, "Maths", "T2"),
                              SlotInput(Nine, "Grade10", "A", "Maths", "T1") },
                      y \in OverlayInputs }

\* C30: the outcome of a batch depends on the date and the batch, not on
\* the persisted slots: status and message are those the call has on an
\* empty store, and a batch of valid inputs without a teacher pair or a
\* class pair is accepted and written whole, whatever weekly slots of its
\* class and section and whatever weekly or substitute commitments of its
\* teachers overlap it.
C30_BatchIgnoresPersistedSlots ==
  \A D \in AlternateDates, b \in OverlayBatches :
    LET r == setAlternateTimetable(slots, nextId, D, b)
        onEmpty == setAlternateTimetable({}, nextId, D, b)
    IN /\ r.status = onEmpty.status /\ r.msg = onEmpty.msg
       /\ ~TeacherPair(b) /\ ~ClassPair(b)
          => /\ r.status = 201
             /\ Cardinality({ s \in r.slots : s.date = StoredDate(D) }) = Len(b)
             /\ \A i \in DOMAIN b :
                  \E s \in r.slots : RowOfInput(s, b[i], StoredDate(D))

\* T2 teaches the weekly Monday 09:30 slot of Grade9, and a batch for Monday
\* 2025-06-09 has written a 09:30 slot of Grade9 with T2 next to it; T1
\* substitutes in a weekly Monday slot, and a batch that has T1 teach at
\* that time on that Monday is accepted.
C30_Witness ==
  /\ \E s \in slots : /\ s.date = NoDate /\ s.dayOfWeek = "MONDAY" /\ s.teacherId = "T2"
                      /\ s.currentClass = "Grade9" /\ s.startTime = HalfPastNine[1]
  /\ \E s \in slots : /\ s.date = StoredDate(Monday9) /\ s.teacherId = "T2"
                      /\ s.currentClass = "Grade9" /\ s.startTime = HalfPastNine[1]
  /\ \E s \in slots, b \in OverlayBatches :
       /\ s.date = NoDate /\ s.dayOfWeek = "MONDAY" /\ s.substituteTeacherId = "T1"
       /\ b[1].teacherId = "T1" /\ b[1].startTime = s.startTime
       /\ setAlternateTimetable(slots, nextId, Monday9, b).status = 201

(***************************************************************************)
(* SpecRace: two clients send one single request each, and the steps of    *)
(* the two handlers interleave.  The requests are for Monday 2025-06-09:   *)
(* two of them overlap in the class and section, two in the teacher, one   *)
(* has an inverted interval, one updates the first slot created.           *)
(***************************************************************************)
RacePayloads ==
  { Payload(NoId, "MONDAY", Nine, "Grade10", "A", "Maths", "T1", Monday9),
    Payload(NoId, "MONDAY", HalfPastNine, "Grade10", "A", "Maths", "T2", Monday9),
    Payload(NoId, "MONDAY", HalfPastNine, "Grade9", Null, "Maths", "T1", Monday9),
    Payload(NoId, "MONDAY", Ten, "Grade10", "B", "Maths", "T2", Monday9),
    Payload(NoId, "MONDAY", <<Ten[1], Nine[1]>>, "Grade10", "A", "Maths", "T1", Monday9),
    Payload(1, "MONDAY", Ten, "Grade10", "A", "Maths", "T1", Monday9) }

NextRace ==
  \/ \E c \in Clients, p \in RacePayloads : ReceiveUpsert(c, p)
  \/ \E c \in Clients : CheckTeacherConflict(c)
  \/ \E c \in Clients : CheckClassConflict(c)
  \/ \E c \in Clients : WriteSlot(c)

SpecRace == Init /\ [][NextRace]_vars

\* Two requests are for overlapping slots of one class, section, day and
\* date, or of one teacher on one day and date.
RequestsCollide(p, q) ==
  /\ Overlapping(p, q)
  /\ p.dayOfWeek = q.dayOfWeek /\ Wanted(p).date = Wanted(q).date
  /\ \/ p.currentClass = q.currentClass /\ Wanted(p).section = Wanted(q).section
     \/ Wanted(p).teacherId # Null /\ Wanted(p).teacherId = Wanted(q).teacherId

\* C26: of two concurrent requests that create overlapping slots of one
\* class, section, day and date, or of one teacher, at most one succeeds,
\* whatever the interleaving of their reads and writes: both are never
\* answered 201 and the two slots are never persisted together.
C26_RacingCreatesExclude ==
  /\ inflight["c1"].pc = "done" /\ inflight["c2"].pc = "done"
  /\ inflight["c1"].req.id = NoId /\ inflight["c2"].req.id = NoId
  /\ RequestsCollide(inflight["c1"].req, inflight["c2"].req)
  => ~(inflight["c1"].status = 201 /\ inflight["c2"].status = 201)

(***************************************************************************)
(* SpecReplace: slots are created and a substitute is assigned while no    *)
(* request is in flight; then client c1 sends one batch for Monday         *)
(* 2025-06-09 and client c2 reads the schedule of teacher T1 or of Grade10 *)
(* A, and the steps of the two handlers interleave.                        *)
(***************************************************************************)
ReplacePayloads ==
  { Payload(NoId, "MONDAY", Nine, "Grade10", "A", "Maths", "T2", Monday9),
    Payload(NoId, "MONDAY", Nine, "Grade9", Null, "Maths", "T1", NoDateString) }

ReplaceBatches ==
  { <<SlotInput(Ten, "Grade10", "A", "Maths", "T1")>>,
    <<SlotInput(Ten, "Grade10", "A", "Maths", "T1"),
      SlotInput(Ten, "Grade10", "A", "Maths", "T2")>> }

ReplaceDates == {NoDateString, Monday9}

NoRequest == \A c \in Clients : inflight[c].pc = "idle"

\* The slots and the substitute the batch and the read find: written by
\* requests that ran alone.
PrepareSlot(p) == NoRequest /\ UpsertSlot(p, MaxReplaceId)

PrepareSubstitute(timetableSlotId) == NoRequest /\ AssignSubstitute(timetableSlotId, "T1")

NextReplace ==
  \/ \E p \in ReplacePayloads : PrepareSlot(p)
  \/ \E id \in 1..MaxReplaceId : PrepareSubstitute(id)
  \/ \E b \in ReplaceBatches : BeginAlternate("c1", Monday9, b)
  \/ TxDeleteMany("c1")
  \/ TxCreate("c1")
  \/ TxCommit("c1")
  \/ \E q \in ReplaceDates : BeginTeacherRead("c2", "T1", q)
  \/ TeacherReadStep("c2")
  \/ \E q \in ReplaceDates : BeginClassRead("c2", "Grade10", "A", q)
  \/ ClassReadStep("c2")

SpecReplace == Init /\ [][NextReplace]_vars

\* C27: a read of the effective schedule that runs while a batch replaces
\* the slots of a date is answered with the slots it would get before the
\* transaction or with those it would get after it, never with a mixture of
\* the two: its answer is one of the answers the handler gives, run alone,
\* on the rows committed at some moment of the read.
C27_ReadsSeeOldOrNew ==
  \A c \in Clients :
    inflight[c].pc = "answered" => idsOf(inflight[c].body) \in inflight[c].views

====
